---- MODULE Spec2Model ----
(***************************************************************************)
(* Model of the zlover signalling server (src/server.js) and of the        *)
(* browser client's negotiation engine (src/public/js/main.js).            *)
(*                                                                         *)
(* Every socket.io event handler of the server runs to completion on the   *)
(* Node.js event loop, so each handler is one action.                      *)
(***************************************************************************)
EXTENDS Integers, Sequences, FiniteSets, TLC

\* ------------------------------------------------------------------ bounds
\* Number of connections (socket ids) that ever exist; an id is never reused.
NumSockets == 4
\* Largest value of the clock Date.now().
MaxNow == 1
\* Room capacity used by the model. server.js:312 sets maxUsers to 10; the
\* model scales the capacity down so that a full room is reachable.
MaxUsers == 3
\* Events waiting at a browser for its event loop.
MaxInbox == 2
\* ICE candidates one peer sends to a browser.
MaxCandidates == 2
\* Peer connections one browser creates.
MaxLinks == 2
\* Timers pending at one browser.
MaxTimers == 3
\* Runs of processPendingCandidates suspended at a time, and ice-candidate
\* signals a browser handles.
MaxFlushes == 2
MaxArrivals == 3
\* Pings of one browser that await their pong.
MaxPings == 2
\* Days the room sweep model follows.
MaxDays == 1
\* Admission attempts of one source address that the rate model follows.
MaxAttempts == 82
\* Half rate windows that pass in the rate model.
MaxTicks == 2
MaxSweepAttempts == 2
MaxNickLen == 3
MaxRetryAttempts == 53
MaxGateAttempts == 52

Sockets == 1 .. NumSockets

\* ------------------------------------------------------- JavaScript values
\* A JS string is a sequence of one-character strings; undefined is its own value.
Undefined == [t |-> "undefined", v |-> <<>>]
Str(s) == [t |-> "string", v |-> s]

UpperCase == <<"A", "B", "C", "R">>
LowerCase == <<"a", "b", "c", "r">>
Letters == {"A", "B", "C", "R", "a", "b", "c", "r", "l", "o", "y"}
Digits == {"1", "2"}

\* String.prototype.toLowerCase, one character.
toLowerCaseChar(c) ==
  IF \E i \in 1 .. Len(UpperCase) : UpperCase[i] = c
  THEN LowerCase[CHOOSE i \in 1 .. Len(UpperCase) : UpperCase[i] = c]
  ELSE c

RECURSIVE toLowerCase(_)
toLowerCase(s) ==
  IF s = <<>> THEN <<>> ELSE <<toLowerCaseChar(Head(s))>> \o toLowerCase(Tail(s))

\* \s of a JS regular expression.
IsSpace(c) == c = " "
\* \w of a JS regular expression.
IsWord(c) == c \in Letters \cup Digits \cup {"_"}

RECURSIVE trimStart(_)
trimStart(s) ==
  IF s # <<>> /\ IsSpace(Head(s)) THEN trimStart(Tail(s)) ELSE s

RECURSIVE trimEnd(_)
trimEnd(s) ==
  IF s # <<>> /\ IsSpace(s[Len(s)]) THEN trimEnd(SubSeq(s, 1, Len(s) - 1)) ELSE s

\* String.prototype.trim
trim(s) == trimEnd(trimStart(s))

\* s.replace(/\s+/g, ' '): every maximal run of whitespace becomes one space.
RECURSIVE collapseSpaces(_)
collapseSpaces(s) ==
  IF s = <<>> THEN <<>>
  ELSE IF IsSpace(Head(s))
       THEN <<" ">> \o collapseSpaces(trimStart(s))
       ELSE <<Head(s)>> \o collapseSpaces(Tail(s))

\* /^[a-zA-Z0-9-_]+$/
RoomIdPattern(s) ==
  s # <<>> /\ \A i \in 1 .. Len(s) : s[i] \in Letters \cup Digits \cup {"-", "_"}

\* /^[\w\s-]+$/u
NicknamePattern(s) ==
  s # <<>> /\ \A i \in 1 .. Len(s) : IsWord(s[i]) \/ IsSpace(s[i]) \/ s[i] = "-"

\* !x || typeof x !== 'string'
MissingOrNotString(x) == x.t # "string" \/ x.v = <<>>

\* server.js validateAndSanitizeInput. The sanitizing step calls .trim() on
\* the raw fields, which throws a TypeError when a field is not a string.
validateAndSanitizeInput(data) ==
  LET roomErrors ==
        IF MissingOrNotString(data.roomId) THEN <<"Room ID is required">>
        ELSE IF Len(data.roomId.v) > 50 THEN <<"Room ID too long (max 50 characters)">>
        ELSE IF ~RoomIdPattern(data.roomId.v) THEN <<"Room ID contains invalid characters">>
        ELSE <<>>
      nickErrors ==
        IF MissingOrNotString(data.nickname) THEN <<"Nickname is required">>
        ELSE IF Len(data.nickname.v) < 2 THEN <<"Nickname too short (min 2 characters)">>
        ELSE IF Len(data.nickname.v) > 20 THEN <<"Nickname too long (max 20 characters)">>
        ELSE IF ~NicknamePattern(data.nickname.v) THEN <<"Nickname contains invalid characters">>
        ELSE <<>>
  IN  IF data.roomId.t # "string" \/ data.nickname.t # "string"
      THEN [threw |-> TRUE, errors |-> roomErrors \o nickErrors,
            sanitized |-> [roomId |-> <<>>, nickname |-> <<>>]]
      ELSE [threw |-> FALSE, errors |-> roomErrors \o nickErrors,
            sanitized |-> [roomId |-> toLowerCase(trim(data.roomId.v)),
                           nickname |-> collapseSpaces(trim(data.nickname.v))]]

\* ------------------------------------------------------------------- state
VARIABLES
  rooms,        \* server.js rooms: roomId -> [users, host, created, maxUsers]
  userMap,      \* server.js userMap: socket id -> [roomId, nickname, joinedAt]
  sockets,      \* each connection: "fresh", "connected" or "closed"
  ioRooms,      \* socket.io room membership: set of <<roomId, socket id>>
  kickTimers,   \* sockets with a pending setTimeout(disconnect) of kick-user
  connections,  \* server.js connections: IP -> admission timestamps
  production,   \* process.env.NODE_ENV === 'production'
  now,          \* Date.now()
  lastEmits,    \* the events the last handler emitted, in emission order
  inflight,     \* join-room requests sent by clients and not yet handled
  lastOp,       \* history: the client request the last step handled, if any
  deletedRooms, \* history: the ids of the rooms deleted so far
  inbox,        \* per browser: the server events received and not yet handled
  rtcManager,   \* per browser: main.js rtcManager [userInfo, peers, pendingCandidates]
  history,      \* per browser: what its handlers were given and what they emitted
  eventLoop,    \* per browser: pending setTimeout callbacks and replaced peer connections
  rateLog       \* history, per source address: the admission attempts and the last verdict

serverVars ==
  <<rooms, userMap, sockets, ioRooms, kickTimers, connections, production, now,
    lastEmits, inflight, lastOp, deletedRooms, rateLog>>

clientVars == <<inbox, rtcManager, history, eventLoop>>

vars ==
  <<rooms, userMap, sockets, ioRooms, kickTimers, connections, production, now,
    lastEmits, inflight, lastOp, deletedRooms, inbox, rtcManager, history,
    eventLoop, rateLog>>

\* ------------------------------------------------------------------ events
\* The signal field of a 'signal' request: its type and, for an ICE candidate,
\* which candidate it carries. NoSignal stands for a missing field.
NoSignal == [type |-> "", payload |-> 0]

NoEvent ==
  [ev |-> "", rcpt |-> {}, type |-> "", id |-> 0, users |-> <<>>,
   isHost |-> FALSE, roomId |-> <<>>, created |-> 0, nickname |-> <<>>,
   userCount |-> 0, maxUsers |-> 0, signal |-> NoSignal, details |-> <<>>]

\* The history record of a handler run.
NoOp ==
  [op |-> "", s |-> 0, valid |-> FALSE, roomId |-> <<>>, nickname |-> <<>>,
   target |-> 0, signal |-> NoSignal]

\* socket.emit('error', {type})
ErrorTo(s, type) == [NoEvent EXCEPT !.ev = "error", !.rcpt = {s}, !.type = type]

\* The sockets reached by socket.to(roomId): the socket.io room without the sender.
ToRoom(io, roomId, sender) == {t \in Sockets : <<roomId, t>> \in io} \ {sender}

\* The sockets reached by socket.to(socketId): that socket's own room without the sender.
ToSocket(socks, target, sender) ==
  {t \in Sockets : t = target /\ socks[t] = "connected"} \ {sender}

\* Array.from(room.users): the Set iterates in insertion order.
Range(seq) == {seq[i] : i \in 1 .. Len(seq)}

\* Set.prototype.delete on the insertion-ordered Set.
SetDelete(seq, x) == SelectSeq(seq, LAMBDA y : y # x)

\* Map.prototype.set / delete
MapSet(m, k, v) == [x \in DOMAIN m \cup {k} |-> IF x = k THEN v ELSE m[x]]
MapDelete(m, k) == [x \in DOMAIN m \ {k} |-> m[x]]

\* ------------------------------------------------------------------ inputs
\* The room ids and nicknames a user may type. "R1" and "r1" name the same
\* room; "Al" and "al" collide case-insensitively.
R1 == Str(<<"R", "1">>)
r1 == Str(<<"r", "1">>)
r2 == Str(<<"r", "2">>)
Al == Str(<<"A", "l">>)
al == Str(<<"a", "l">>)
Bo == Str(<<"B", "o">>)
Cy == Str(<<"C", "y">>)

\* The well-formed requests each connection of the model may send.
ValidJoinData(s) ==
  IF s = 1 THEN {[roomId |-> R1, nickname |-> Al]}
  ELSE IF s = 2 THEN {[roomId |-> r1, nickname |-> al], [roomId |-> r1, nickname |-> Bo]}
  ELSE IF s = 3 THEN {[roomId |-> R1, nickname |-> Cy], [roomId |-> r2, nickname |-> Cy]}
  ELSE [roomId : {R1, r2}, nickname : {Al, Bo}]

\* Malformed requests: a bad character, a short nickname, a missing field.
InvalidJoinData ==
  {[roomId |-> Str(<<"r", " ">>), nickname |-> Al],
   [roomId |-> R1, nickname |-> Str(<<"l">>)],
   [roomId |-> Undefined, nickname |-> Al]}

JoinData(s) == ValidJoinData(s) \cup InvalidJoinData

SignalTypes == {"offer", "answer", "ice-candidate"}

\* The characters of the nicknames of the nickname model: a word character
\* and a space.
NickAlphabet == {"a", " "}

\* The nicknames of the nickname model: every string over NickAlphabet of up
\* to MaxNickLen characters, and the strings of 20 and of 21 word characters.
RawNicknames ==
  {Str(v) : v \in UNION {[1 .. n -> NickAlphabet] : n \in 0 .. MaxNickLen}}
    \cup {Str([i \in 1 .. 20 |-> "a"]), Str([i \in 1 .. 21 |-> "a"])}

\* The signals of the relay model: one of each type, or none.
Signals == {[type |-> ty, payload |-> 0] : ty \in SignalTypes} \cup {NoSignal}

AllJoinData == UNION {JoinData(s) : s \in Sockets}

\* validateAndSanitizeInput tabulated over the requests of the model.
Validated == [data \in AllJoinData |-> validateAndSanitizeInput(data)]

\* ------------------------------------------------------------ rate limiter
RATE_LIMIT == 100
RATE_WINDOW == 900000

\* socket.handshake.address: the model's connections share one source address.
clientIP(s) == "ip"

\* Math.min(...list) of a non-empty list of timestamps.
MathMin(list) == CHOOSE x \in Range(list) : \A y \in Range(list) : x <= y

\* Mutant: the interval is rounded down.
MathFloorDiv(a, b) == a \div b

\* Math.ceil(a / b) for a >= 0 and b > 0.
MathCeilDiv(a, b) == (a + b - 1) \div b

\* The progressive limit for a pruned list of the given length.
RateLimitFor(length) ==
  IF length > 80 THEN 5
  ELSE IF length > 50 THEN 20
  ELSE RATE_LIMIT

\* The timestamps of the list that are inside the window at time now.
RecentConnections(userConnections) ==
  SelectSeq(userConnections, LAMBDA time : now - time < RATE_WINDOW)

\* server.js checkEnhancedRateLimit: the verdict and the new connections table.
\* limit is the limit in force; it and retryAfter are 0 when none applies.
checkEnhancedRateLimit(ip) ==
  IF ~production
  THEN [allowed |-> TRUE, connections |-> connections, limit |-> 0, retryAfter |-> 0]
  ELSE
    LET userConnections == IF ip \in DOMAIN connections THEN connections[ip] ELSE <<>>
        recentConnections == RecentConnections(userConnections)
        limit == RateLimitFor(Len(recentConnections))
    IN  IF Len(recentConnections) >= limit
        THEN [allowed |-> FALSE, connections |-> connections, limit |-> limit,
              retryAfter |->
                MathCeilDiv(RATE_WINDOW - (now - MathMin(recentConnections)), 1000)]
        ELSE [allowed |-> TRUE,
              connections |-> MapSet(connections, ip, Append(recentConnections, now)),
              limit |-> limit, retryAfter |-> 0]

\* ----------------------------------------------------------------- handlers
\* Mutant: the nicknames are compared case-sensitively.
checkDuplicateNicknameCaseSensitive(rms, roomId, nickname, excludeSocketId) ==
  IF roomId \notin DOMAIN rms THEN FALSE
  ELSE \E socketId \in Range(rms[roomId].users) :
         /\ socketId # excludeSocketId
         /\ socketId \in DOMAIN userMap
         /\ userMap[socketId].nickname = nickname

\* server.js checkDuplicateNickname, on a given rooms table.
checkDuplicateNickname(rms, roomId, nickname, excludeSocketId) ==
  IF roomId \notin DOMAIN rms THEN FALSE
  ELSE \E socketId \in Range(rms[roomId].users) :
         /\ socketId # excludeSocketId
         /\ socketId \in DOMAIN userMap
         /\ toLowerCase(userMap[socketId].nickname) = toLowerCase(nickname)

\* Mutant: every room counts as full.
RoomIsFullAlways(room) == TRUE

\* Mutant: the capacity test off by one.
RoomIsFullOffByOne(room) == Len(room.users) > room.maxUsers

\* The capacity test of the join-room handler.
RoomIsFull(room) == Len(room.users) >= room.maxUsers

\* Mutant: the host is transferred only when two or more members are left.
HostTransfersOffByOne(room, s, users1) == room.host = s /\ Len(users1) > 1

\* The disconnect handler's test for a host transfer; users1 are the members left.
HostTransfers(room, s, users1) == room.host = s /\ Len(users1) > 0

\* Mutant: the member who joined last becomes the host.
NewHostLast(users1) == users1[Len(users1)]

\* The disconnect handler's choice of the new host: Array.from(room.users)[0].
NewHost(users1) == users1[1]

\* Mutant: an empty room is kept.
RoomIsEmptyNever(users1) == FALSE

\* The disconnect handler's test for deleting the room.
RoomIsEmpty(users1) == Len(users1) = 0

\* Mutant: the room comparison is skipped.
SameRoomAlways(targetUser, currentUser) == TRUE

\* The signal handler's test that sender and recipient share a room.
SameRoom(targetUser, currentUser) == targetUser.roomId = currentUser.roomId

\* Mutant: a connection the limiter rejected stays open.
SocketAfterRateLimitOpen(allowed) == "connected"

\* io.on('connection'): socket.disconnect() and return when the limiter rejects.
SocketAfterRateLimit(allowed) == IF allowed THEN "connected" ELSE "closed"

\* io.on('connection'): the rate limiter admits the connection or closes it.
Connect(s) ==
  /\ sockets[s] = "fresh"
  \* ids are fresh opaque tokens: the model hands them out in increasing order
  /\ \A t \in Sockets : t < s => sockets[t] # "fresh"
  /\ LET rateLimitResult == checkEnhancedRateLimit(clientIP(s))
     IN  IF ~rateLimitResult.allowed
         THEN /\ sockets' = [sockets EXCEPT ![s] = SocketAfterRateLimit(FALSE)]
              /\ lastEmits' = <<ErrorTo(s, "RATE_LIMIT")>>
              /\ UNCHANGED connections
         ELSE /\ sockets' = [sockets EXCEPT ![s] = SocketAfterRateLimit(TRUE)]
              /\ connections' = rateLimitResult.connections
              /\ lastEmits' = <<>>
  /\ lastOp' = NoOp
  /\ UNCHANGED <<rooms, userMap, ioRooms, kickTimers, production, now, inflight,
                 deletedRooms>>

\* join-room, "Add user to room" and the three notifications; room is the
\* record the handler looked up in rooms1, the table after the optional creation.
JoinAdmit(s, roomId, nickname, rooms1, room2) ==
  /\ rooms' = MapSet(rooms1, roomId, room2)
  /\ userMap' = MapSet(userMap, s, [roomId |-> roomId, nickname |-> nickname,
                                     joinedAt |-> now])
  /\ ioRooms' = ioRooms \cup {<<roomId, s>>}
  /\ lastEmits' =
       << [NoEvent EXCEPT !.ev = "existing-users", !.rcpt = {s},
             \* existingUsers: Array.from(room.users).filter(id => id !== socket.id)
             !.users = SelectSeq(room2.users, LAMBDA id : id # s),
             !.isHost = (room2.host = s),
             !.roomId = roomId, !.created = room2.created,
             !.userCount = Len(room2.users), !.maxUsers = room2.maxUsers],
          [NoEvent EXCEPT !.ev = "user-joined",
             !.rcpt = ToRoom(ioRooms', roomId, s), !.id = s,
             !.nickname = nickname, !.roomId = roomId],
          [NoEvent EXCEPT !.ev = "room-joined", !.rcpt = {s}, !.roomId = roomId,
             !.nickname = nickname, !.isHost = (room2.host = s),
             !.userCount = Len(room2.users)] >>

\* join-room from the capacity check on.
JoinChecks(s, roomId, nickname, rooms1, room) ==
  IF RoomIsFull(room) THEN
    /\ rooms' = rooms1
    /\ lastEmits' = <<[ErrorTo(s, "ROOM_FULL") EXCEPT !.roomId = roomId,
                        !.maxUsers = room.maxUsers, !.userCount = Len(room.users)]>>
    /\ UNCHANGED <<userMap, ioRooms>>
  ELSE IF checkDuplicateNickname(rooms1, roomId, nickname, s) THEN
    /\ rooms' = rooms1
    /\ lastEmits' = <<[ErrorTo(s, "NICKNAME_TAKEN") EXCEPT !.roomId = roomId,
                        !.nickname = nickname]>>
    /\ UNCHANGED <<userMap, ioRooms>>
  ELSE JoinAdmit(s, roomId, nickname, rooms1,
                 [room EXCEPT !.users = Append(room.users, s)])

\* Mutant: the new room names no host.
CreateRoomIfMissingNoHost(s, roomId) ==
  IF roomId \in DOMAIN rooms THEN rooms
  ELSE MapSet(rooms, roomId,
              [users |-> <<>>, host |-> 0, created |-> now, maxUsers |-> MaxUsers])

\* join-room, "Create room if it doesn't exist": the rooms table afterwards.
CreateRoomIfMissing(s, roomId) ==
  IF roomId \in DOMAIN rooms THEN rooms
  ELSE MapSet(rooms, roomId,
              [users |-> <<>>, host |-> s, created |-> now, maxUsers |-> MaxUsers])

\* Mutant: the handler never finds an existing membership.
HasExistingUserNever(users, s) == FALSE

\* join-room, "Check if user is already in a room": userMap.get(socket.id).
HasExistingUser(users, s) == s \in DOMAIN users

\* join-room once the input is validated.
JoinSanitized(s, roomId, nickname, rooms1) ==
  IF HasExistingUser(userMap, s) THEN
    /\ lastEmits' = <<ErrorTo(s, "ALREADY_IN_ROOM")>>
    /\ UNCHANGED <<rooms, userMap, ioRooms>>
  ELSE JoinChecks(s, roomId, nickname, rooms1, rooms1[roomId])

\* join-room with the outcome of validateAndSanitizeInput.
JoinValidated(s, validation) ==
  /\ lastOp' = [NoOp EXCEPT !.op = "join-room", !.s = s,
                  !.valid = (~validation.threw /\ validation.errors = <<>>),
                  !.roomId = validation.sanitized.roomId,
                  !.nickname = validation.sanitized.nickname]
  /\ UNCHANGED deletedRooms
  /\ IF validation.threw THEN
       \* the TypeError of .trim() lands in the handler's catch
       /\ lastEmits' = <<ErrorTo(s, "SERVER_ERROR")>>
       /\ UNCHANGED <<rooms, userMap, ioRooms>>
     ELSE IF validation.errors # <<>> THEN
       /\ lastEmits' = <<[ErrorTo(s, "VALIDATION_ERROR") EXCEPT
                            !.details = validation.errors]>>
       /\ UNCHANGED <<rooms, userMap, ioRooms>>
     ELSE JoinSanitized(s, validation.sanitized.roomId, validation.sanitized.nickname,
                        CreateRoomIfMissing(s, validation.sanitized.roomId))

\* The join-room handler's effect on the directory and the events it emits.
JoinRoomHandler(s, data) == JoinValidated(s, Validated[data])

\* socket.on('join-room') with the request handled as soon as it is sent.
JoinRoom(s, data) ==
  /\ sockets[s] = "connected"
  /\ JoinRoomHandler(s, data)
  /\ UNCHANGED <<sockets, kickTimers, connections, production, now, inflight>>

\* The disconnect handler once the member is removed: users1 are the members
\* left and io1 the socket.io rooms without the closed socket.
LeaveRoom(s, roomId, room, users1, io1, transfer, newHost) ==
  /\ IF RoomIsEmpty(users1)
     THEN /\ rooms' = MapDelete(rooms, roomId)
          /\ deletedRooms' = deletedRooms \cup {roomId}
     ELSE /\ rooms' = MapSet(rooms, roomId,
                             [room EXCEPT !.users = users1,
                                !.host = IF transfer THEN newHost ELSE room.host])
          /\ UNCHANGED deletedRooms
  /\ lastEmits' =
       (IF transfer
        THEN << [NoEvent EXCEPT !.ev = "host-transferred",
                   !.rcpt = ToSocket(sockets', newHost, s)],
                [NoEvent EXCEPT !.ev = "new-host",
                   !.rcpt = ToRoom(io1, roomId, s), !.id = newHost,
                   !.roomId = roomId] >>
        ELSE <<>>) \o
       (IF RoomIsEmpty(users1) THEN <<>>
        ELSE << [NoEvent EXCEPT !.ev = "user-left",
                   !.rcpt = ToRoom(io1, roomId, s), !.id = s, !.roomId = roomId] >>)

\* Mutant: every leave hands the room to the latest member left.
LeaveMemberHandsOver(s, roomId, room, users1, io1) ==
  LeaveRoom(s, roomId, room, users1, io1, users1 # <<>>,
            IF users1 = <<>> THEN 0 ELSE NewHostLast(users1))

\* The disconnect handler for a member of room, with the member removed.
LeaveMember(s, roomId, room, users1, io1) ==
  LeaveRoom(s, roomId, room, users1, io1, HostTransfers(room, s, users1),
            IF users1 = <<>> THEN 0 ELSE NewHost(users1))

\* A disconnect handler that leaves the member in the room's set.
UsersAfterLeaveKept(room, s) == room.users

\* room.users.delete(socket.id)
UsersAfterLeave(room, s) == SetDelete(room.users, s)

\* The disconnect handler's effect. socket.io has already removed the socket
\* from all its rooms when the 'disconnect' event fires.
DisconnectHandler(s) ==
  /\ ioRooms' = {p \in ioRooms : p[2] # s}
  /\ IF s \notin DOMAIN userMap
     THEN /\ lastEmits' = <<>>
          /\ UNCHANGED <<rooms, userMap, deletedRooms>>
     ELSE
       /\ userMap' = MapDelete(userMap, s)
       /\ IF userMap[s].roomId \notin DOMAIN rooms
          THEN /\ lastEmits' = <<>>
               /\ UNCHANGED <<rooms, deletedRooms>>
          ELSE LeaveMember(s, userMap[s].roomId, rooms[userMap[s].roomId],
                           UsersAfterLeave(rooms[userMap[s].roomId], s), ioRooms')

\* The connection closes (the client leaves, reloads or loses its transport).
Disconnect(s) ==
  /\ sockets[s] = "connected"
  /\ sockets' = [sockets EXCEPT ![s] = "closed"]
  /\ DisconnectHandler(s)
  /\ inflight' = {m \in inflight : m.s # s}
  /\ lastOp' = NoOp
  /\ UNCHANGED <<kickTimers, connections, production, now>>

\* Date.now() advances.
Tick ==
  /\ now < MaxNow
  /\ now' = now + 1
  /\ lastEmits' = <<>>
  /\ lastOp' = NoOp
  /\ UNCHANGED <<rooms, userMap, sockets, ioRooms, kickTimers, connections,
                 production, inflight, deletedRooms>>

\* Mutant: every member may kick.
IsRoomHostAlways(s) == userMap[s].roomId \in DOMAIN rooms

\* kick-user, room && room.host === socket.id, for a member s.
IsRoomHost(s) ==
  /\ userMap[s].roomId \in DOMAIN rooms
  /\ rooms[userMap[s].roomId].host = s

\* Mutant: the kick timer never closes the socket.
KickTimerClosesNever(t) == FALSE

\* The kick timer's targetSocket.disconnect() acts on a socket still open.
KickTimerCloses(t) == sockets[t] = "connected"

\* socket.on('kick-user'); targetSocketId 0 stands for a missing target.
KickUser(s, targetSocketId) ==
  /\ sockets[s] = "connected"
  /\ IF s \notin DOMAIN userMap \/ targetSocketId = 0 THEN
       /\ lastEmits' = <<ErrorTo(s, "INVALID_KICK_REQUEST")>>
       /\ UNCHANGED kickTimers
     ELSE IF ~IsRoomHost(s) THEN
       /\ lastEmits' = <<ErrorTo(s, "UNAUTHORIZED")>>
       /\ UNCHANGED kickTimers
     ELSE IF targetSocketId = s THEN
       /\ lastEmits' = <<ErrorTo(s, "SELF_KICK")>>
       /\ UNCHANGED kickTimers
     ELSE IF targetSocketId \notin DOMAIN userMap
             \/ userMap[targetSocketId].roomId # userMap[s].roomId THEN
       /\ lastEmits' = <<ErrorTo(s, "USER_NOT_IN_ROOM")>>
       /\ UNCHANGED kickTimers
     ELSE
       \* io.sockets.sockets.get(targetSocketId): the target's live socket
       /\ kickTimers' = IF sockets[targetSocketId] = "connected"
                         THEN kickTimers \cup {targetSocketId} ELSE kickTimers
       /\ lastEmits' =
            (IF sockets[targetSocketId] = "connected"
             THEN << [NoEvent EXCEPT !.ev = "kicked", !.rcpt = {targetSocketId},
                        !.nickname = userMap[s].nickname] >>
             ELSE <<>>) \o
            << [NoEvent EXCEPT !.ev = "user-kicked",
                  !.rcpt = ToRoom(ioRooms, userMap[s].roomId, s),
                  !.nickname = userMap[targetSocketId].nickname,
                  !.roomId = userMap[s].roomId] >>
  /\ lastOp' = [NoOp EXCEPT !.op = "kick-user", !.s = s, !.target = targetSocketId]
  /\ UNCHANGED <<rooms, userMap, sockets, ioRooms, connections, production, now,
                 inflight, deletedRooms>>

\* The kick-user timer: targetSocket.disconnect() two seconds after the kick.
KickTimerFire(t) ==
  /\ t \in kickTimers
  /\ kickTimers' = kickTimers \ {t}
  /\ IF KickTimerCloses(t)
     THEN /\ sockets' = [sockets EXCEPT ![t] = "closed"]
          /\ DisconnectHandler(t)
          /\ inflight' = {m \in inflight : m.s # t}
     ELSE /\ lastEmits' = <<>>
          /\ UNCHANGED <<rooms, userMap, sockets, ioRooms, inflight, deletedRooms>>
  /\ lastOp' = [NoOp EXCEPT !.op = "kick-timeout", !.target = t]
  /\ UNCHANGED <<connections, production, now>>

\* Mutant: the relay forwards every signal as an offer.
ForwardedSignalAsOffer(s, to, signal) ==
  [NoEvent EXCEPT !.ev = "signal", !.rcpt = ToSocket(sockets, to, s),
     !.id = s, !.signal = [signal EXCEPT !.type = "offer"],
     !.roomId = userMap[s].roomId]

\* socket.to(to).emit('signal', {from, signal, timestamp, roomId})
ForwardedSignal(s, to, signal) ==
  [NoEvent EXCEPT !.ev = "signal", !.rcpt = ToSocket(sockets, to, s),
     !.id = s, !.signal = signal, !.roomId = userMap[s].roomId]

\* socket.on('signal'); to = 0 and signal = NoSignal stand for missing fields.
Signal(s, to, signal) ==
  /\ sockets[s] = "connected"
  /\ lastEmits' =
       IF to = 0 \/ signal = NoSignal THEN <<ErrorTo(s, "INVALID_SIGNAL")>>
       ELSE IF to \notin DOMAIN userMap \/ s \notin DOMAIN userMap
         THEN <<ErrorTo(s, "USER_NOT_FOUND")>>
       ELSE IF ~SameRoom(userMap[to], userMap[s])
         THEN <<ErrorTo(s, "ROOM_MISMATCH")>>
       ELSE <<ForwardedSignal(s, to, signal)>>
  /\ lastOp' = [NoOp EXCEPT !.op = "signal", !.s = s, !.target = to, !.signal = signal]
  /\ UNCHANGED <<rooms, userMap, sockets, ioRooms, kickTimers, connections,
                 production, now, inflight, deletedRooms>>

\* The message field of a chat-message request: missing, blank after
\* sanitizing, or text.
ChatMessages == {"missing", "blank", "text"}

\* socket.on('chat-message')
ChatMessage(s, message) ==
  /\ sockets[s] = "connected"
  /\ lastEmits' =
       IF s \notin DOMAIN userMap THEN <<ErrorTo(s, "USER_NOT_FOUND")>>
       ELSE IF message = "missing" THEN <<ErrorTo(s, "INVALID_MESSAGE")>>
       ELSE IF message = "blank" THEN <<ErrorTo(s, "EMPTY_MESSAGE")>>
       ELSE \* io.to(user.roomId): the socket.io room, the sender included
            << [NoEvent EXCEPT !.ev = "chat-message",
                  !.rcpt = {t \in Sockets : <<userMap[s].roomId, t>> \in ioRooms},
                  !.id = s, !.nickname = userMap[s].nickname,
                  !.roomId = userMap[s].roomId] >>
  /\ lastOp' = [NoOp EXCEPT !.op = "chat-message", !.s = s]
  /\ UNCHANGED <<rooms, userMap, sockets, ioRooms, kickTimers, connections,
                 production, now, inflight, deletedRooms>>

\* The client emits join-room (main.js performJoinProcess); the request travels
\* to the server. A connection has at most one join request in transit.
SendJoin(s, data) ==
  /\ sockets[s] = "connected"
  /\ \A m \in inflight : m.s # s
  /\ inflight' = inflight \cup {[s |-> s, data |-> data]}
  /\ lastEmits' = <<>>
  /\ lastOp' = NoOp
  /\ UNCHANGED <<rooms, userMap, sockets, ioRooms, kickTimers, connections,
                 production, now, deletedRooms>>

\* The event loop takes one request in transit and runs the join-room handler
\* on it to completion; requests of different connections arrive in any order.
DeliverJoin(m) ==
  /\ m \in inflight
  /\ sockets[m.s] = "connected"
  /\ inflight' = inflight \ {m}
  /\ JoinRoomHandler(m.s, m.data)
  /\ UNCHANGED <<sockets, kickTimers, connections, production, now>>


\* ----------------------------------------------------------- browser client
\* The connections whose browser runs main.js in the model. Their peers are
\* arbitrary socket.io clients: they send any signal.
Browsers == {2}

\* The connections that are the browser's peers in the client model, one with
\* a smaller id than the browser and one with a larger id.
Peers == {1, 3}

\* The server events whose handler in main.js reaches the rtcManager; the
\* handlers of the other events only update the page.
ClientEvents == {"existing-users", "user-joined", "user-left", "signal"}

Candidates == 1 .. MaxCandidates

\* The signals a peer may send to a browser.
ClientSignals ==
  {[type |-> "offer", payload |-> 0], [type |-> "answer", payload |-> 0]}
    \cup {[type |-> "ice-candidate", payload |-> k] : k \in Candidates}

\* The method definitions in the body of class RTCManager that the signalling
\* handlers use, in source order with their lines. A class body may define a
\* name twice; the later definition replaces the earlier one.
RTCManagerClassBody ==
  << [name |-> "storeUserInfo", line |-> 273],
     [name |-> "createOffer", line |-> 654],
     [name |-> "handleOffer", line |-> 692],
     [name |-> "handleAnswer", line |-> 736],
     [name |-> "handleIceCandidate", line |-> 756],
     [name |-> "removePeer", line |-> 778],
     [name |-> "muteAudio", line |-> 1040],
     [name |-> "createOffer", line |-> 1244],
     [name |-> "handleOffer", line |-> 1278],
     [name |-> "handleAnswer", line |-> 1511],
     [name |-> "handleIceCandidate", line |-> 1527],
     [name |-> "processPendingCandidates", line |-> 1550],
     [name |-> "handleConnectionFailure", line |-> 1572],
     [name |-> "removePeer", line |-> 1686],
     [name |-> "muteAudio", line |-> 1881] >>

\* The line of the definition that this.<name> resolves to; 0 when the class
\* defines no such method and this.<name> is undefined.
MethodLine(name) ==
  LET defs == {i \in 1 .. Len(RTCManagerClassBody) : RTCManagerClassBody[i].name = name}
  IN  IF defs = {} THEN 0
      ELSE RTCManagerClassBody[CHOOSE i \in defs : \A j \in defs : j <= i].line

\* Calling this.<name>(...) throws a TypeError unless the name is a method.
IsFunction(name) == MethodLine(name) # 0

\* new RTCManager(): the constructor's maps; localStream is set by
\* initializeMedia (or the dummy stream) before the browser joins.
NewRTCManager ==
  [userInfo |-> <<>>, peers |-> <<>>, pendingCandidates |-> <<>>, localStream |-> TRUE]

\* new RTCPeerConnection(config), as far as signalling goes: whether the
\* remote description is set, the candidates given to addIceCandidate, and
\* connectionState. id tells the objects apart (0 until the model numbers it).
NewPeerConnection ==
  [remoteDescription |-> FALSE, applied |-> <<>>, connectionState |-> "new", id |-> 0]

\* What a handler returns to the model: the manager afterwards and the
\* signals it passed to socketManager.emit, in order.
Outcome(m, sent) == [rtc |-> m, sent |-> sent]

\* RTCManager.storeUserInfo (the manager is initialized by its constructor).
storeUserInfo(m, socketId, nickname) ==
  [m EXCEPT !.userInfo = MapSet(@, socketId, nickname)]

\* The body at main.js:1040, which sets up a peer connection for socketId. Its
\* header reads muteAudio(), a name that line 1881 defines again.
PeerConnectionSetup(m, socketId) ==
  [m EXCEPT !.pendingCandidates = MapSet(@, socketId, <<>>),
            !.peers = MapSet(@, socketId, NewPeerConnection)]

\* RTCManager.processPendingCandidates
processPendingCandidates(m, socketId) ==
  IF /\ socketId \in DOMAIN m.peers
     /\ m.peers[socketId].remoteDescription
     /\ socketId \in DOMAIN m.pendingCandidates
     /\ Len(m.pendingCandidates[socketId]) > 0
  THEN [m EXCEPT !.peers[socketId].applied = @ \o m.pendingCandidates[socketId],
                 !.pendingCandidates[socketId] = <<>>]
  ELSE m

\* pc.setRemoteDescription followed by the flush of the queue.
SetRemoteDescription(m, socketId) ==
  processPendingCandidates([m EXCEPT !.peers[socketId].remoteDescription = TRUE],
                           socketId)

\* RTCManager.createOffer from its second statement on, with the peer
\* connection for socketId set up: the offer is created, set as the local
\* description and emitted, unless there is no local stream.
OfferOn(m, socketId) ==
  IF ~m.localStream THEN Outcome(PeerConnectionSetup(m, socketId), <<>>)
  ELSE Outcome(PeerConnectionSetup(m, socketId),
               <<[to |-> socketId, signal |-> [type |-> "offer", payload |-> 0]]>>)

\* RTCManager.createOffer (main.js:1244). Its first statement calls
\* this.createPeerConnection; when that is no method the call throws and the
\* promise of createOffer rejects before anything is created or sent.
createOffer(m, socketId) ==
  IF ~IsFunction("createPeerConnection") THEN Outcome(m, <<>>)
  ELSE OfferOn(m, socketId)

\* RTCManager.handleOffer (main.js:1278), with the same first statement; the
\* signal handler's try/catch logs the TypeError.
handleOffer(m, socketId) ==
  IF ~IsFunction("createPeerConnection") THEN Outcome(m, <<>>)
  ELSE IF ~m.localStream THEN Outcome(PeerConnectionSetup(m, socketId), <<>>)
  ELSE Outcome(SetRemoteDescription(PeerConnectionSetup(m, socketId), socketId),
               <<[to |-> socketId, signal |-> [type |-> "answer", payload |-> 0]]>>)

\* RTCManager.handleAnswer (main.js:1511)
handleAnswer(m, socketId) ==
  IF socketId \in DOMAIN m.peers
  THEN Outcome(SetRemoteDescription(m, socketId), <<>>)
  ELSE Outcome(m, <<>>)

\* A handler that gives every candidate to addIceCandidate at once.
handleIceCandidateEager(m, socketId, candidate) ==
  IF socketId \notin DOMAIN m.peers THEN Outcome(m, <<>>)
  ELSE Outcome([m EXCEPT !.peers[socketId].applied = Append(@, candidate)], <<>>)

\* RTCManager.handleIceCandidate (main.js:1527): without a peer connection
\* for the sender the candidate is neither applied nor queued.
handleIceCandidate(m, socketId, candidate) ==
  IF socketId \notin DOMAIN m.peers THEN Outcome(m, <<>>)
  ELSE IF m.peers[socketId].remoteDescription
  THEN Outcome([m EXCEPT !.peers[socketId].applied = Append(@, candidate)], <<>>)
  ELSE Outcome([m EXCEPT !.pendingCandidates =
                  MapSet(@, socketId,
                         Append(IF socketId \in DOMAIN m.pendingCandidates
                                THEN m.pendingCandidates[socketId] ELSE <<>>,
                                candidate))], <<>>)

\* A teardown that clears the maps instead of deleting one key.
removePeerAll(m, socketId) ==
  [m EXCEPT !.peers = <<>>, !.pendingCandidates = <<>>, !.userInfo = <<>>]

\* RTCManager.removePeer (main.js:1686)
removePeer(m, socketId) ==
  [m EXCEPT !.peers = MapDelete(@, socketId),
            !.pendingCandidates = MapDelete(@, socketId),
            !.userInfo = MapDelete(@, socketId)]

\* user.socketId and user.nickname in the existing-users handler. The server
\* sends the members as id strings (server.js:348), and a property of a
\* string is undefined; 0 is the model's undefined id.
UserSocketId(user) == 0
UserNickname(user) == Undefined

\* data.users.forEach of the existing-users handler: storeUserInfo, then
\* createOffer, for each listed user in order.
RECURSIVE ForEachExistingUser(_, _, _)
ForEachExistingUser(m, users, sent) ==
  IF users = <<>> THEN Outcome(m, sent)
  ELSE LET offer == createOffer(storeUserInfo(m, UserSocketId(Head(users)),
                                               UserNickname(Head(users))),
                                UserSocketId(Head(users)))
       IN  ForEachExistingUser(offer.rtc, Tail(users), sent \o offer.sent)

\* The socket event handlers of main.js:3912-3986 on one received event.
HandleEvent(m, e) ==
  IF e.ev = "existing-users" THEN ForEachExistingUser(m, e.users, <<>>)
  ELSE IF e.ev = "user-joined" THEN Outcome(storeUserInfo(m, e.id, Str(e.nickname)), <<>>)
  ELSE IF e.ev = "user-left" THEN Outcome(removePeer(m, e.id), <<>>)
  ELSE IF e.signal.type = "offer" THEN handleOffer(m, e.id)
  ELSE IF e.signal.type = "answer" THEN handleAnswer(m, e.id)
  ELSE IF e.signal.type = "ice-candidate" THEN handleIceCandidate(m, e.id, e.signal.payload)
  ELSE Outcome(m, <<>>)

\* The link to peer p has its remote description applied.
RemoteDescriptionSet(m, p) == p \in DOMAIN m.peers /\ m.peers[p].remoteDescription

NewHistory == [early |-> <<>>, listed |-> {}, emitted |-> <<>>, outstanding |-> <<>>]

\* The record of one handler run at a browser: the candidates that arrived
\* before the sender's remote description was applied (until the link to the
\* sender is torn down), the members listed by existing-users, the signals
\* emitted, and the keys of this.peers for which an offer was created and no
\* answer has been applied yet.
Recorded(h, m, e, sent) ==
  [early |->
     IF e.ev = "signal" /\ e.signal.type = "ice-candidate" /\ ~RemoteDescriptionSet(m, e.id)
     THEN MapSet(h.early, e.id,
                 Append(IF e.id \in DOMAIN h.early THEN h.early[e.id] ELSE <<>>,
                        e.signal.payload))
     ELSE IF e.ev = "user-left" THEN MapDelete(h.early, e.id)
     ELSE h.early,
   listed |-> IF e.ev = "existing-users" THEN h.listed \cup Range(e.users) ELSE h.listed,
   emitted |-> h.emitted \o sent,
   outstanding |->
     IF e.ev = "signal" /\ e.signal.type = "answer" /\ e.id \in DOMAIN m.peers
     THEN SelectSeq(h.outstanding, LAMBDA k : k # e.id)
     ELSE IF e.ev = "user-left" THEN SelectSeq(h.outstanding, LAMBDA k : k # e.id)
     ELSE h.outstanding \o [i \in 1 .. Len(sent) |-> sent[i].to]]

\* The browser's event loop runs the handler of the oldest received event.
ClientHandled(c, e, outcome) ==
  /\ rtcManager' = [rtcManager EXCEPT ![c] = outcome.rtc]
  /\ history' = [history EXCEPT ![c] = Recorded(@, rtcManager[c], e, outcome.sent)]
  /\ inbox' = [inbox EXCEPT ![c] = Tail(@)]

ClientHandle(c) ==
  /\ sockets[c] = "connected"
  /\ inbox[c] # <<>>
  /\ ClientHandled(c, Head(inbox[c]), HandleEvent(rtcManager[c], Head(inbox[c])))
  /\ UNCHANGED <<eventLoop>>
  /\ UNCHANGED serverVars

\* data.users.forEach of the existing-users handler (main.js:3930) with the
\* peer connection of each createOffer call set up: storeUserInfo, then the
\* offer, for each listed user in order, none of the calls awaited.
RECURSIVE ForEachExistingUserLinked(_, _, _)
ForEachExistingUserLinked(m, users, sent) ==
  IF users = <<>> THEN Outcome(m, sent)
  ELSE LET offer == OfferOn(storeUserInfo(m, UserSocketId(Head(users)),
                                          UserNickname(Head(users))),
                            UserSocketId(Head(users)))
       IN  ForEachExistingUserLinked(offer.rtc, Tail(users), sent \o offer.sent)

\* The handlers of main.js:3912-3986 where createOffer has its peer connection.
HandleEventLinked(m, e) ==
  IF e.ev = "existing-users" THEN ForEachExistingUserLinked(m, e.users, <<>>)
  ELSE HandleEvent(m, e)

\* The browser's event loop runs the handler of the oldest received event.
ClientHandleLinked(c) ==
  /\ sockets[c] = "connected"
  /\ inbox[c] # <<>>
  /\ ClientHandled(c, Head(inbox[c]), HandleEventLinked(rtcManager[c], Head(inbox[c])))
  /\ UNCHANGED <<eventLoop>>
  /\ UNCHANGED serverVars

\* The events of a server handler that socket.io delivers to browser c.
DeliveredTo(c, emits) == SelectSeq(emits, LAMBDA e : c \in e.rcpt /\ e.ev \in ClientEvents)

\* A server handler together with the delivery of its events to the
\* browsers; a browser whose connection closed receives nothing more.
Server(handler) ==
  /\ handler
  /\ inbox' = [c \in Browsers |->
                 IF sockets'[c] # "connected" THEN <<>>
                 ELSE inbox[c] \o DeliveredTo(c, lastEmits')]
  /\ \A c \in Browsers : Len(inbox'[c]) <= MaxInbox
  /\ UNCHANGED <<rtcManager, history, eventLoop, rateLog>>

\* The candidates peer s has in transit to or recorded at browser c.
CandidatesFrom(s, c) ==
  Len(SelectSeq(inbox[c], LAMBDA e : e.ev = "signal" /\ e.id = s
                                      /\ e.signal.type = "ice-candidate"))
    + (IF s \in DOMAIN history[c].early THEN Len(history[c].early[s]) ELSE 0)

\* A peer sends a signal to a browser through the relay.
PeerSignal(s, to, signal) ==
  /\ signal.type = "ice-candidate" => CandidatesFrom(s, to) < MaxCandidates
  /\ Signal(s, to, signal)

\* -------------------------------------------------------- link supervision
\* connectionState values an RTCPeerConnection reports while it is open.
TransportStates == {"connecting", "connected", "disconnected", "failed"}

\* The connectionState changes the browser makes: a new connection starts
\* connecting, a connection attempt succeeds or fails, an established
\* transport is interrupted and recovers or fails, and a failed transport
\* leaves that state when an ICE restart makes progress.
TransportNext(state) ==
  IF state = "new" THEN {"connecting"}
  ELSE IF state = "connecting" THEN {"connected", "failed"}
  ELSE IF state = "connected" THEN {"disconnected", "failed"}
  ELSE IF state = "disconnected" THEN {"connected", "failed"}
  ELSE IF state = "failed" THEN {"connecting", "connected", "disconnected"}
  ELSE {}

\* A pending setTimeout callback: its kind, the socketId and the peer
\* connection object (by id) that its closure captured.
Timer(kind, socketId, pc) == [kind |-> kind, peer |-> socketId, pc |-> pc]

NoTimer == Timer("", 0, 0)

\* One run of processPendingCandidates that is suspended at an await: the
\* socketId it was called with, the peer connection it read from this.peers,
\* the queue it iterates (queue), the part of it still to be applied (rest),
\* and the candidates whose addIceCandidate was rejected (skipped).
Flush(socketId, pc, queue, rest, skipped) ==
  [peer |-> socketId, pc |-> pc, queue |-> queue, rest |-> rest, skipped |-> skipped]

NoFlush == Flush(0, 0, <<>>, <<>>, <<>>)

\* One ice-candidate signal handled by handleIceCandidate: the sender, the
\* candidate, whether the peer connection had its remote description, and
\* whether addIceCandidate was rejected.
Arrival(socketId, candidate, late, failed) ==
  [peer |-> socketId, candidate |-> candidate, late |-> late, failed |-> failed]

NoArrival == Arrival(0, 0, FALSE, FALSE)

\* The event loop of a page: the pending timers in the order they were set,
\* the number of peer connections created, the peer connections that were
\* replaced in this.peers without being closed (id -> [peer, connectionState]),
\* the timer whose callback ran last, the peer connections that have
\* reported connectionState failed, the suspended runs of
\* processPendingCandidates, the run that completed in the last step, the
\* number of ice-candidate signals handled, the one handled in the last
\* step, the peers whose entry the last step deleted from this.peers, and
\* for each peer connection the calls of pc.restartIce() since it last
\* reported connected (counted up to two); of the page's SocketManager, the
\* pings sent whose pong is still to come and connectionQuality.
NewEventLoop ==
  [timers |-> <<>>, created |-> 0, orphans |-> <<>>, fired |-> NoTimer,
   failedSeen |-> {}, flushes |-> <<>>, flushed |-> NoFlush, arrivals |-> 0,
   arrived |-> NoArrival, removed |-> {}, restarts |-> <<>>, pings |-> 0,
   connectionQuality |-> "unknown"]

\* A closed peer connection that still reports failed.
CapturedStateStale(m, loop, t) ==
  IF t.peer \in DOMAIN m.peers /\ m.peers[t.peer].id = t.pc
  THEN m.peers[t.peer].connectionState
  ELSE IF t.pc \in DOMAIN loop.orphans THEN loop.orphans[t.pc].connectionState
  ELSE "failed"

\* pc.connectionState of the object a closure captured: the object in
\* this.peers, a replaced object, or an object that removePeer closed.
CapturedState(m, loop, t) ==
  IF t.peer \in DOMAIN m.peers /\ m.peers[t.peer].id = t.pc
  THEN m.peers[t.peer].connectionState
  ELSE IF t.pc \in DOMAIN loop.orphans THEN loop.orphans[t.pc].connectionState
  ELSE "closed"

\* What a supervision callback returns to the model: the manager afterwards
\* and the timers it set, in order.
Supervised(m, set) == [rtc |-> m, set |-> set]

\* pc.onconnectionstatechange (main.js:1136) of peer connection pc, created
\* for socketId, once connectionState is state.
onconnectionstatechange(m, socketId, pc, state) ==
  IF state = "failed" THEN Supervised(m, <<Timer("failed-delay", socketId, pc)>>)
  ELSE IF state = "disconnected" THEN Supervised(m, <<Timer("grace", socketId, pc)>>)
  ELSE IF state = "connected" THEN Supervised(processPendingCandidates(m, socketId), <<>>)
  ELSE Supervised(m, <<>>)

\* RTCManager.handleConnectionFailure (main.js:1572): pc.restartIce() on the
\* peer connection this.peers holds for socketId, and the 30 s timer on it.
handleConnectionFailure(m, socketId) ==
  IF socketId \in DOMAIN m.peers
  THEN Supervised(m, <<Timer("restart", socketId, m.peers[socketId].id)>>)
  ELSE Supervised(m, <<>>)

\* A grace timer that restarts whatever the transport state is.
GraceTimerRestartsAlways(state) == TRUE

\* The test of the 15 s timer (main.js:1152) on pc.connectionState.
GraceTimerRestarts(state) == state \in {"disconnected", "failed"}

\* The callbacks of the three setTimeout calls (main.js:1142, 1151, 1590).
TimerCallback(m, loop, t) ==
  IF t.kind = "failed-delay" THEN
    IF CapturedState(m, loop, t) = "failed"
    THEN handleConnectionFailure(m, t.peer) ELSE Supervised(m, <<>>)
  ELSE IF t.kind = "grace" THEN
    IF GraceTimerRestarts(CapturedState(m, loop, t))
    THEN handleConnectionFailure(m, t.peer) ELSE Supervised(m, <<>>)
  ELSE
    IF CapturedState(m, loop, t) = "failed"
    THEN Supervised(removePeer(m, t.peer), <<>>) ELSE Supervised(m, <<>>)

\* The count of pc.restartIce() calls after a callback that set the timers
\* in set: handleConnectionFailure sets one restart timer per call.
RECURSIVE RestartsCounted(_, _)
RestartsCounted(restarts, set) ==
  IF set = <<>> THEN restarts
  ELSE IF Head(set).kind # "restart" THEN RestartsCounted(restarts, Tail(set))
  ELSE RestartsCounted(
         MapSet(restarts, Head(set).pc,
                IF Head(set).pc \notin DOMAIN restarts THEN 1 ELSE 2),
         Tail(set))

\* Sequence seq without its i-th element.
RemoveAt(seq, i) == SubSeq(seq, 1, i - 1) \o SubSeq(seq, i + 1, Len(seq))

\* this.createPeerConnection(socketId): a new peer connection for socketId is
\* set up and stored in this.peers; an object stored there before stays open.
LinkCreated(c, socketId, m, loop) ==
  /\ rtcManager' =
       [rtcManager EXCEPT ![c] =
          [PeerConnectionSetup(m, socketId) EXCEPT !.peers[socketId].id = loop.created + 1]]
  /\ eventLoop' =
       [eventLoop EXCEPT ![c] =
          [loop EXCEPT !.created = @ + 1,
                       !.fired = NoTimer, !.flushed = NoFlush, !.arrived = NoArrival,
                       !.removed = {},
                       !.orphans = IF socketId \in DOMAIN m.peers
                                   THEN MapSet(@, m.peers[socketId].id,
                                               [peer |-> socketId,
                                                connectionState |->
                                                  m.peers[socketId].connectionState])
                                   ELSE @]]

LinkCreate(c, socketId) ==
  /\ eventLoop[c].created < MaxLinks
  /\ LinkCreated(c, socketId, rtcManager[c], eventLoop[c])
  /\ UNCHANGED <<inbox, history>>
  /\ UNCHANGED serverVars

\* The callback onconnectionstatechange has run and set its timers.
TransportChanged(c, pc, state, loop1, outcome) ==
  /\ Len(loop1.timers) + Len(outcome.set) <= MaxTimers
  /\ rtcManager' = [rtcManager EXCEPT ![c] = outcome.rtc]
  /\ eventLoop' = [eventLoop EXCEPT ![c] =
                     [loop1 EXCEPT !.timers = @ \o outcome.set, !.fired = NoTimer,
                                   !.flushed = NoFlush, !.arrived = NoArrival,
                                   !.removed = {},
                                   !.restarts = IF state = "connected"
                                                THEN MapDelete(@, pc) ELSE @,
                                   !.failedSeen = IF state = "failed"
                                                  THEN @ \cup {pc} ELSE @]]

\* The browser changes connectionState of the peer connection that
\* this.peers holds for socketId and fires connectionstatechange.
TransportChange(c, socketId, state) ==
  /\ socketId \in DOMAIN rtcManager[c].peers
  /\ state \in TransportNext(rtcManager[c].peers[socketId].connectionState)
  /\ TransportChanged(c, rtcManager[c].peers[socketId].id, state, eventLoop[c],
       onconnectionstatechange(
         [rtcManager[c] EXCEPT !.peers[socketId].connectionState = state],
         socketId, rtcManager[c].peers[socketId].id, state))
  /\ UNCHANGED <<inbox, history>>
  /\ UNCHANGED serverVars

\* The same for a peer connection that was replaced in this.peers.
OrphanTransportChange(c, pc, state) ==
  /\ pc \in DOMAIN eventLoop[c].orphans
  /\ state \in TransportNext(eventLoop[c].orphans[pc].connectionState)
  /\ TransportChanged(c, pc, state,
       [eventLoop[c] EXCEPT !.orphans[pc].connectionState = state],
       onconnectionstatechange(rtcManager[c], eventLoop[c].orphans[pc].peer, pc, state))
  /\ UNCHANGED <<inbox, history>>
  /\ UNCHANGED serverVars

\* A timer callback has run.
TimerFired(c, i, t, outcome) ==
  /\ rtcManager' = [rtcManager EXCEPT ![c] = outcome.rtc]
  /\ eventLoop' = [eventLoop EXCEPT ![c] =
                     [@ EXCEPT !.timers = RemoveAt(@, i) \o outcome.set, !.fired = t,
                               !.flushed = NoFlush, !.arrived = NoArrival,
                               !.removed = DOMAIN rtcManager[c].peers
                                             \ DOMAIN outcome.rtc.peers,
                               !.restarts = RestartsCounted(@, outcome.set)]]

\* A pending timer expires and its callback runs.
TimerFire(c, i) ==
  /\ i \in 1 .. Len(eventLoop[c].timers)
  /\ TimerFired(c, i, eventLoop[c].timers[i],
                TimerCallback(rtcManager[c], eventLoop[c], eventLoop[c].timers[i]))
  /\ UNCHANGED <<inbox, history>>
  /\ UNCHANGED serverVars

\* The user-left handler (main.js:3953) for a peer the browser has a link to.
PeerLeft(c, socketId) ==
  /\ socketId \in DOMAIN rtcManager[c].peers
  /\ rtcManager' = [rtcManager EXCEPT ![c] = removePeer(@, socketId)]
  /\ eventLoop' = [eventLoop EXCEPT ![c].fired = NoTimer, ![c].flushed = NoFlush,
                                    ![c].arrived = NoArrival,
                                    ![c].removed = {socketId}]
  /\ UNCHANGED <<inbox, history>>
  /\ UNCHANGED serverVars

\* ------------------------------------------------------------- negotiation
\* The synchronous part of processPendingCandidates (main.js:1550): with a
\* peer connection that has its remote description and a non-empty queue the
\* loop starts on the objects it has just read, and the run is suspended at
\* the first await; otherwise the call does nothing.
FlushStart(m, socketId) ==
  IF /\ socketId \in DOMAIN m.peers
     /\ m.peers[socketId].remoteDescription
     /\ socketId \in DOMAIN m.pendingCandidates
     /\ Len(m.pendingCandidates[socketId]) > 0
  THEN <<Flush(socketId, m.peers[socketId].id, m.pendingCandidates[socketId],
               m.pendingCandidates[socketId], <<>>)>>
  ELSE <<>>

\* The peer connection a suspended run holds is the one in this.peers; any
\* other one was replaced there or closed by removePeer.
FlushTargetsLink(m, f) == f.peer \in DOMAIN m.peers /\ m.peers[f.peer].id = f.pc

\* this.pendingCandidates.set(socketId, []) at the end of the loop
\* (main.js:1567).
FlushClearsQueue(m, socketId) ==
  [m EXCEPT !.pendingCandidates = MapSet(@, socketId, <<>>)]

\* A loop that gives up the link at the first rejected candidate.
FlushAbortsOnFailure(m, f, accepted) ==
  IF ~accepted THEN removePeer(m, f.peer)
  ELSE IF Len(f.rest) = 1 THEN FlushClearsQueue(
       [m EXCEPT !.peers[f.peer].applied = Append(@, Head(f.rest))], f.peer)
  ELSE [m EXCEPT !.peers[f.peer].applied = Append(@, Head(f.rest))]

\* One await pc.addIceCandidate(candidate) of the loop has settled: accepted
\* tells whether the promise resolved (a rejection is caught and logged), and
\* after the last candidate the queue is cleared.
FlushContinued(m, f, accepted) ==
  IF Len(f.rest) = 1 THEN FlushClearsQueue(
       IF accepted THEN [m EXCEPT !.peers[f.peer].applied = Append(@, Head(f.rest))]
       ELSE m, f.peer)
  ELSE IF accepted THEN [m EXCEPT !.peers[f.peer].applied = Append(@, Head(f.rest))]
  ELSE m

\* await pc.setRemoteDescription(...) of handleOffer (main.js:1287) or of
\* handleAnswer (main.js:1516) resolves for the peer connection of socketId,
\* and the continuation calls processPendingCandidates.
RemoteDescriptionApplied(c, socketId) ==
  /\ socketId \in DOMAIN rtcManager[c].peers
  /\ ~rtcManager[c].peers[socketId].remoteDescription
  /\ Len(eventLoop[c].flushes) < MaxFlushes
  /\ rtcManager' = [rtcManager EXCEPT ![c].peers[socketId].remoteDescription = TRUE]
  /\ eventLoop' =
       [eventLoop EXCEPT
          ![c].flushes = @ \o FlushStart(rtcManager'[c], socketId),
          ![c].fired = NoTimer, ![c].flushed = NoFlush, ![c].arrived = NoArrival,
          ![c].removed = {}]
  /\ UNCHANGED <<inbox, history>>
  /\ UNCHANGED serverVars

\* A flush trigger other than the continuation of setRemoteDescription: the
\* peer connection of socketId fires signalingstatechange with state stable
\* or have-remote-offer (main.js:1175), or connectionstatechange with state
\* connected (main.js:1157), and the callback calls processPendingCandidates.
FlushTriggered(c, socketId) ==
  /\ socketId \in DOMAIN rtcManager[c].peers
  /\ Len(eventLoop[c].flushes) < MaxFlushes
  /\ eventLoop' =
       [eventLoop EXCEPT
          ![c].flushes = @ \o FlushStart(rtcManager[c], socketId),
          ![c].fired = NoTimer, ![c].flushed = NoFlush, ![c].arrived = NoArrival,
          ![c].removed = {}]
  /\ UNCHANGED <<rtcManager, inbox, history>>
  /\ UNCHANGED serverVars

\* The await of handleOffer, handleAnswer or createOffer rejects, and the
\* catch block calls removePeer (main.js:1274, 1311, 1523).
NegotiationFails(c, socketId) ==
  /\ socketId \in DOMAIN rtcManager[c].peers
  /\ ~rtcManager[c].peers[socketId].remoteDescription
  /\ rtcManager' = [rtcManager EXCEPT ![c] = removePeer(@, socketId)]
  /\ eventLoop' = [eventLoop EXCEPT ![c].fired = NoTimer, ![c].flushed = NoFlush,
                                    ![c].arrived = NoArrival,
                                    ![c].removed = {socketId}]
  /\ UNCHANGED <<inbox, history>>
  /\ UNCHANGED serverVars

\* An ice-candidate signal of socketId is handled (main.js:1527). With the
\* remote description set the candidate goes to addIceCandidate, whose
\* rejection is caught and logged; otherwise it is queued.
CandidateArrives(c, socketId, accepted) ==
  /\ socketId \in DOMAIN rtcManager[c].peers
  /\ eventLoop[c].arrivals < MaxArrivals
  /\ accepted \/ rtcManager[c].peers[socketId].remoteDescription
  /\ rtcManager' =
       [rtcManager EXCEPT ![c] =
          IF accepted
          THEN handleIceCandidate(@, socketId, eventLoop[c].arrivals + 1).rtc
          ELSE @]
  /\ eventLoop' =
       [eventLoop EXCEPT
          ![c].arrivals = @ + 1,
          ![c].arrived = Arrival(socketId, eventLoop[c].arrivals + 1,
                                 rtcManager[c].peers[socketId].remoteDescription,
                                 ~accepted),
          ![c].fired = NoTimer, ![c].flushed = NoFlush, ![c].removed = {}]
  /\ UNCHANGED <<inbox, history>>
  /\ UNCHANGED serverVars

\* The i-th suspended run of processPendingCandidates resumes: the candidate
\* it awaited is applied to its peer connection or rejected (always rejected
\* by a peer connection that removePeer closed), and the run goes on to the
\* next candidate or clears the queue and ends.
FlushStep(c, i, accepted) ==
  /\ i \in 1 .. Len(eventLoop[c].flushes)
  /\ accepted => FlushTargetsLink(rtcManager[c], eventLoop[c].flushes[i])
  /\ rtcManager' =
       [rtcManager EXCEPT ![c] = FlushContinued(@, eventLoop[c].flushes[i], accepted)]
  /\ eventLoop' =
       [eventLoop EXCEPT
          ![c].flushes =
             IF Len(@[i].rest) = 1 THEN RemoveAt(@, i)
             ELSE [@ EXCEPT ![i].rest = Tail(@),
                            ![i].skipped = IF accepted THEN @
                                           ELSE Append(@, Head(eventLoop[c].flushes[i].rest))],
          ![c].flushed =
             IF Len(eventLoop[c].flushes[i].rest) = 1
             THEN [eventLoop[c].flushes[i] EXCEPT
                     !.rest = <<>>,
                     !.skipped = IF accepted THEN @
                                 ELSE Append(@, Head(eventLoop[c].flushes[i].rest))]
             ELSE NoFlush,
          ![c].fired = NoTimer, ![c].arrived = NoArrival, ![c].removed = {}]
  /\ UNCHANGED <<inbox, history>>
  /\ UNCHANGED serverVars

\* An answer or an ice-candidate signal of socketId is handled (main.js:3965,
\* 3968) while this.peers has no entry for socketId.
SignalAfterClose(c, socketId, type) ==
  /\ socketId \notin DOMAIN rtcManager[c].peers
  /\ rtcManager' =
       [rtcManager EXCEPT ![c] =
          IF type = "answer" THEN handleAnswer(@, socketId).rtc
          ELSE handleIceCandidate(@, socketId, eventLoop[c].arrivals + 1).rtc]
  /\ eventLoop' =
       [eventLoop EXCEPT
          ![c].arrived = Arrival(socketId,
                                 IF type = "answer" THEN 0 ELSE eventLoop[c].arrivals + 1,
                                 FALSE, FALSE),
          ![c].fired = NoTimer, ![c].flushed = NoFlush, ![c].removed = {}]
  /\ UNCHANGED <<inbox, history>>
  /\ UNCHANGED serverVars

\* ---------------------------------------------------------------- liveness
\* The ping handler of the server (server.js:701): it reads the caller's
\* record and room and answers with pong.
Ping(s) ==
  /\ sockets[s] = "connected"
  /\ lastEmits' =
       << [NoEvent EXCEPT !.ev = "pong", !.rcpt = {s},
             !.roomId = IF s \in DOMAIN userMap THEN userMap[s].roomId ELSE <<>>,
             !.userCount = IF s \in DOMAIN userMap /\ userMap[s].roomId \in DOMAIN rooms
                           THEN Len(rooms[userMap[s].roomId].users) ELSE 0] >>
  /\ lastOp' = [NoOp EXCEPT !.op = "ping", !.s = s]
  /\ UNCHANGED <<rooms, userMap, sockets, ioRooms, kickTimers, connections, production,
                 now, inflight, deletedRooms>>

\* The round-trip times of the model, in ms, one for each quality.
Latencies == {50, 150, 300, 600}

\* connectionQuality for a latency (main.js:102-110).
QualityOf(latency) ==
  IF latency < 100 THEN "excellent"
  ELSE IF latency < 200 THEN "good"
  ELSE IF latency < 500 THEN "fair"
  ELSE "poor"

\* A pong handler that drops the links when the latency is poor.
pongHandlerDropsPoor(m, latency) ==
  [rtc |-> IF QualityOf(latency) = "poor"
           THEN [m EXCEPT !.peers = <<>>, !.pendingCandidates = <<>>]
           ELSE m,
   connectionQuality |-> QualityOf(latency)]

\* The pong handler of SocketManager (main.js:96): the latency sets
\* connectionQuality; the rtcManager is not referred to.
pongHandler(m, latency) == [rtc |-> m, connectionQuality |-> QualityOf(latency)]

\* The 30 s interval of startConnectionMonitoring (main.js:154) emits ping
\* while the socket is connected, and the server's handler runs.
PingSent(c) ==
  /\ eventLoop[c].pings < MaxPings
  /\ Ping(c)
  /\ eventLoop' = [eventLoop EXCEPT ![c].pings = @ + 1, ![c].fired = NoTimer,
                                    ![c].flushed = NoFlush, ![c].arrived = NoArrival,
                                    ![c].removed = {}]
  /\ UNCHANGED <<rtcManager, inbox, history, rateLog>>

\* A pong arrives after latency ms and its handler runs.
PongReceived(c, latency) ==
  /\ eventLoop[c].pings > 0
  /\ rtcManager' = [rtcManager EXCEPT ![c] = pongHandler(@, latency).rtc]
  /\ eventLoop' =
       [eventLoop EXCEPT
          ![c].pings = @ - 1,
          ![c].connectionQuality = pongHandler(rtcManager[c], latency).connectionQuality,
          ![c].fired = NoTimer, ![c].flushed = NoFlush, ![c].arrived = NoArrival,
          ![c].removed = {}]
  /\ UNCHANGED <<inbox, history>>
  /\ UNCHANGED serverVars

\* The pong of a ping never arrives; no handler and no timer waits for it.
PongMissing(c) ==
  /\ eventLoop[c].pings > 0
  /\ eventLoop' = [eventLoop EXCEPT ![c].pings = @ - 1, ![c].fired = NoTimer,
                                    ![c].flushed = NoFlush, ![c].arrived = NoArrival,
                                    ![c].removed = {}]
  /\ UNCHANGED <<rtcManager, inbox, history>>
  /\ UNCHANGED serverVars

\* ------------------------------------------------------------- rate model
\* The source addresses of the rate model.
RateKeys == {"ip", "ip2"}

\* The clock of the rate model advances by half a rate window.
TickMs == RATE_WINDOW \div 2

\* ROOM_TIMEOUT of the periodic cleanup.
ROOM_TIMEOUT == 86400000

\* The verdict of the last call of checkEnhancedRateLimit for a key; window
\* is the number of attempts of the key inside the window, this one included.
\* waited marks a call made right after waiting for a reported retryAfter, and
\* the state in which that wait has just ended.
NoVerdict ==
  [called |-> FALSE, allowed |-> FALSE, limit |-> 0, retryAfter |-> 0, window |-> 0,
   waited |-> FALSE]

NewRateLog == [attempts |-> <<>>, last |-> NoVerdict]

\* No call of the limiter in this step.
NoCall == [k \in RateKeys |-> [rateLog[k] EXCEPT !.last = NoVerdict]]

\* checkEnhancedRateLimit(ip) has returned result.
RateLimitCalled(ip, result, attempts) ==
  /\ connections' = result.connections
  /\ rateLog' = [NoCall EXCEPT ![ip] =
                   [attempts |-> attempts,
                    last |-> [called |-> TRUE, allowed |-> result.allowed,
                              limit |-> result.limit,
                              retryAfter |-> result.retryAfter,
                              window |-> Len(attempts),
                              waited |-> (/\ rateLog[ip].last.waited
                                          /\ ~rateLog[ip].last.called)]]]

\* A connection attempt from address ip: io.on('connection') calls
\* checkEnhancedRateLimit(ip). The sockets of these attempts are not followed.
RateLimitCall(ip) ==
  /\ Len(RecentConnections(rateLog[ip].attempts)) < MaxAttempts
  /\ RateLimitCalled(ip, checkEnhancedRateLimit(ip),
                     Append(RecentConnections(rateLog[ip].attempts), now))
  /\ lastEmits' = <<>>
  /\ lastOp' = NoOp
  /\ UNCHANGED <<rooms, userMap, sockets, ioRooms, kickTimers, production, now,
                 inflight, deletedRooms>>
  /\ UNCHANGED clientVars

\* Half a rate window passes.
Elapse ==
  /\ now + TickMs <= MaxTicks * TickMs
  /\ now' = now + TickMs
  /\ rateLog' = NoCall
  /\ lastEmits' = <<>>
  /\ lastOp' = NoOp
  /\ UNCHANGED <<rooms, userMap, sockets, ioRooms, kickTimers, connections,
                 production, inflight, deletedRooms>>
  /\ UNCHANGED clientVars

\* A pause that is not a whole number of seconds.
PauseMs == 300500

\* Some time passes.
Pause ==
  /\ now + PauseMs <= MaxTicks * TickMs
  /\ now' = now + PauseMs
  /\ rateLog' = NoCall
  /\ lastEmits' = <<>>
  /\ lastOp' = NoOp
  /\ UNCHANGED <<rooms, userMap, sockets, ioRooms, kickTimers, connections,
                 production, inflight, deletedRooms>>
  /\ UNCHANGED clientVars

\* The client of address ip, just rejected, waits for the retryAfter seconds
\* the RATE_LIMIT error reported.
RetryWait(ip) ==
  /\ rateLog[ip].last.called /\ ~rateLog[ip].last.allowed
  /\ now <= MaxTicks * TickMs
  /\ now' = now + 1000 * rateLog[ip].last.retryAfter
  /\ rateLog' = [NoCall EXCEPT ![ip].last.waited = TRUE]
  /\ lastEmits' = <<>>
  /\ lastOp' = NoOp
  /\ UNCHANGED <<rooms, userMap, sockets, ioRooms, kickTimers, connections,
                 production, inflight, deletedRooms>>
  /\ UNCHANGED clientVars

\* More than ROOM_TIMEOUT passes.
DayPasses ==
  /\ now <= MaxDays * ROOM_TIMEOUT
  /\ now' = now + ROOM_TIMEOUT + 1
  /\ rateLog' = NoCall
  /\ lastEmits' = <<>>
  /\ lastOp' = NoOp
  /\ UNCHANGED <<rooms, userMap, sockets, ioRooms, kickTimers, connections,
                 production, inflight, deletedRooms>>
  /\ UNCHANGED clientVars

\* Mutant: the sweep deletes a record as soon as one of its timestamps is
\* outside the window.
SweptConnectionsAnyExpired(table) ==
  [ip \in {k \in DOMAIN table : RecentConnections(table[k]) = table[k]} |-> table[ip]]

\* The periodic cleanup's pass over the rate table: every list is pruned to
\* the window, and a key whose pruned list is empty is deleted.
SweptConnections(table) ==
  [ip \in {k \in DOMAIN table : Len(RecentConnections(table[k])) # 0} |->
     RecentConnections(table[ip])]

\* A cleanup that removes every room older than ROOM_TIMEOUT.
OldRoomsOccupiedToo(rms) ==
  {roomId \in DOMAIN rms : now - rms[roomId].created > ROOM_TIMEOUT}

\* The rooms the periodic cleanup removes: empty and older than ROOM_TIMEOUT.
OldRooms(rms) ==
  {roomId \in DOMAIN rms :
     Len(rms[roomId].users) = 0 /\ now - rms[roomId].created > ROOM_TIMEOUT}

\* The periodic cleanup (setInterval, every hour).
Sweep ==
  /\ connections' = SweptConnections(connections)
  /\ rooms' = [roomId \in DOMAIN rooms \ OldRooms(rooms) |-> rooms[roomId]]
  /\ deletedRooms' = deletedRooms \cup OldRooms(rooms)
  /\ rateLog' = NoCall
  /\ lastEmits' = <<>>
  /\ lastOp' = [NoOp EXCEPT !.op = "cleanup"]
  /\ UNCHANGED <<userMap, sockets, ioRooms, kickTimers, production, now,
                 inflight>>
  /\ UNCHANGED clientVars

\* ------------------------------------------------------------ specification
InitOf(nodeEnvProduction) ==
  /\ rooms = <<>>
  /\ userMap = <<>>
  /\ sockets = [s \in Sockets |-> "fresh"]
  /\ ioRooms = {}
  /\ kickTimers = {}
  /\ connections = <<>>
  /\ production = nodeEnvProduction
  /\ now = 0
  /\ lastEmits = <<>>
  /\ inflight = {}
  /\ lastOp = NoOp
  /\ deletedRooms = {}
  /\ inbox = [c \in Browsers |-> <<>>]
  /\ rtcManager = [c \in Browsers |-> NewRTCManager]
  /\ history = [c \in Browsers |-> NewHistory]
  /\ eventLoop = [c \in Browsers |-> NewEventLoop]
  /\ rateLog = [k \in RateKeys |-> NewRateLog]

\* The server started without NODE_ENV=production: the rate limiter is off.
Init == InitOf(FALSE)

\* The server started with NODE_ENV=production.
InitProduction == InitOf(TRUE)

Next ==
  \/ \E s \in Sockets : Connect(s) /\ UNCHANGED <<clientVars, rateLog>>
  \/ \E s \in Sockets : \E data \in JoinData(s) : JoinRoom(s, data) /\ UNCHANGED <<clientVars, rateLog>>
  \/ \E s \in Sockets : Disconnect(s) /\ UNCHANGED <<clientVars, rateLog>>
  \/ \E s \in Sockets, t \in Sockets \cup {0} : KickUser(s, t) /\ UNCHANGED <<clientVars, rateLog>>
  \/ \E t \in Sockets : KickTimerFire(t) /\ UNCHANGED <<clientVars, rateLog>>

Spec == Init /\ [][Next]_vars

\* Room lifetime: connections join and leave while the clock advances.
NextLifetime ==
  \/ \E s \in Sockets : Connect(s) /\ UNCHANGED <<clientVars, rateLog>>
  \/ \E s \in Sockets : \E data \in JoinData(s) : JoinRoom(s, data) /\ UNCHANGED <<clientVars, rateLog>>
  \/ \E s \in Sockets : Disconnect(s) /\ UNCHANGED <<clientVars, rateLog>>
  \/ Tick /\ UNCHANGED <<clientVars, rateLog>>

SpecLifetime == Init /\ [][NextLifetime]_vars

\* The relay: connections join, leave and send signals to each other.
NextRelay ==
  \/ \E s \in Sockets : Connect(s) /\ UNCHANGED <<clientVars, rateLog>>
  \/ \E s \in Sockets : \E data \in ValidJoinData(s) : JoinRoom(s, data) /\ UNCHANGED <<clientVars, rateLog>>
  \/ \E s \in Sockets : Disconnect(s) /\ UNCHANGED <<clientVars, rateLog>>
  \/ \E s \in Sockets, to \in Sockets \cup {0}, sig \in Signals : Signal(s, to, sig) /\ UNCHANGED <<clientVars, rateLog>>

SpecRelay == Init /\ [][NextRelay]_vars

\* Concurrent joins: requests are sent, stay in transit and are handled in
\* any order.
NextInFlight ==
  \/ \E s \in Sockets : Connect(s) /\ UNCHANGED <<clientVars, rateLog>>
  \/ \E s \in Sockets : \E data \in ValidJoinData(s) : SendJoin(s, data) /\ UNCHANGED <<clientVars, rateLog>>
  \/ \E m \in inflight : DeliverJoin(m) /\ UNCHANGED <<clientVars, rateLog>>
  \/ \E s \in Sockets : Disconnect(s) /\ UNCHANGED <<clientVars, rateLog>>

SpecInFlight == Init /\ [][NextInFlight]_vars

\* A browser among arbitrary peers: connections join and leave, the server
\* delivers its events to the browser, peers send it signals, and the
\* browser's handlers run one event at a time.
NextClient ==
  \/ \E s \in Browsers \cup Peers : Server(Connect(s))
  \/ \E s \in Browsers \cup Peers : \E data \in ValidJoinData(s) : Server(JoinRoom(s, data))
  \/ \E s \in Browsers \cup Peers : Server(Disconnect(s))
  \/ \E s \in Peers, to \in Browsers, sig \in ClientSignals : Server(PeerSignal(s, to, sig))
  \/ \E c \in Browsers : ClientHandle(c)

SpecClient == Init /\ [][NextClient]_vars

\* A browser that joins a room of peers and offers a link to each member
\* that existing-users lists.
NextOffer ==
  \/ \E s \in Browsers \cup Peers : Server(Connect(s))
  \/ \E s \in Browsers \cup Peers : \E data \in ValidJoinData(s) : Server(JoinRoom(s, data))
  \/ \E s \in Browsers \cup Peers : Server(Disconnect(s))
  \/ \E s \in Peers, to \in Browsers : Server(PeerSignal(s, to, [type |-> "answer", payload |-> 0]))
  \/ \E c \in Browsers : ClientHandleLinked(c)

SpecOffer == Init /\ [][NextOffer]_vars

\* Link supervision at a browser: peer connections are created, their
\* transport changes state, the supervision timers expire, peers leave.
NextLink ==
  \/ \E c \in Browsers, p \in Peers : LinkCreate(c, p)
  \/ \E c \in Browsers, p \in Peers, state \in TransportStates : TransportChange(c, p, state)
  \/ \E c \in Browsers, pc \in 1 .. MaxLinks, state \in TransportStates :
       OrphanTransportChange(c, pc, state)
  \/ \E c \in Browsers, i \in 1 .. MaxTimers : TimerFire(c, i)
  \/ \E c \in Browsers, p \in Peers : PeerLeft(c, p)

SpecLink == Init /\ [][NextLink]_vars

\* Link supervision with signals that arrive late: as NextLink, and answers
\* and candidates of peers the browser holds no link to are handled.
NextClosed ==
  \/ NextLink
  \/ \E c \in Browsers, p \in Peers, type \in {"answer", "ice-candidate"} :
       SignalAfterClose(c, p, type)

SpecClosed == Init /\ [][NextClosed]_vars

\* Negotiation at a browser: peer connections are created, remote
\* descriptions are applied or the negotiation fails, candidates arrive, the
\* flushes of the candidate queues proceed, peers leave.
NextNegotiation ==
  \/ \E c \in Browsers, p \in Peers : LinkCreate(c, p)
  \/ \E c \in Browsers, p \in Peers : RemoteDescriptionApplied(c, p)
  \/ \E c \in Browsers, p \in Peers : NegotiationFails(c, p)
  \/ \E c \in Browsers, p \in Peers, accepted \in BOOLEAN : CandidateArrives(c, p, accepted)
  \/ \E c \in Browsers, i \in 1 .. MaxFlushes, accepted \in BOOLEAN : FlushStep(c, i, accepted)
  \/ \E c \in Browsers, p \in Peers : PeerLeft(c, p)

SpecNegotiation == Init /\ [][NextNegotiation]_vars

\* The negotiation with the flush triggers of the peer connection's callbacks.
NextFlush ==
  \/ NextNegotiation
  \/ \E c \in Browsers, p \in Peers : FlushTriggered(c, p)

SpecFlush == Init /\ [][NextFlush]_vars

\* The participants of the teardown model are members of a room.
InCall == Browsers \cup Peers \subseteq DOMAIN userMap

\* The participants connect and join in the order of their ids.
TurnOf(s) == \A t \in Browsers \cup Peers : t < s => t \in DOMAIN userMap

\* The participants join; then the browser's links are created, negotiated,
\* supervised (one timer at a time) and torn down.
NextTeardown ==
  \/ \E s \in Browsers \cup Peers :
       ~InCall /\ TurnOf(s) /\ Connect(s) /\ UNCHANGED <<clientVars, rateLog>>
  \/ \E s \in Browsers \cup Peers : \E data \in ValidJoinData(s) :
       ~InCall /\ TurnOf(s) /\ JoinRoom(s, data) /\ UNCHANGED <<clientVars, rateLog>>
  \/ \E c \in Browsers, p \in Peers : InCall /\ LinkCreate(c, p)
  \/ \E c \in Browsers, p \in Peers : RemoteDescriptionApplied(c, p)
  \/ \E c \in Browsers, p \in Peers : NegotiationFails(c, p)
  \/ \E c \in Browsers, p \in Peers : CandidateArrives(c, p, TRUE)
  \/ \E c \in Browsers, i \in 1 .. MaxFlushes : FlushStep(c, i, TRUE)
  \/ \E c \in Browsers, p \in Peers, state \in TransportStates :
       eventLoop[c].timers = <<>> /\ TransportChange(c, p, state)
  \/ \E c \in Browsers, i \in 1 .. MaxTimers : TimerFire(c, i)
  \/ \E c \in Browsers, p \in Peers : PeerLeft(c, p)

\* The participants join and the browser's links are created and torn down
\* while the browser pings the server.
NextPing ==
  \/ \E s \in Browsers \cup Peers :
       ~InCall /\ TurnOf(s) /\ Connect(s) /\ UNCHANGED <<clientVars, rateLog>>
  \/ \E s \in Browsers \cup Peers : \E data \in ValidJoinData(s) :
       ~InCall /\ TurnOf(s) /\ JoinRoom(s, data) /\ UNCHANGED <<clientVars, rateLog>>
  \/ \E c \in Browsers, p \in Peers : InCall /\ LinkCreate(c, p)
  \/ \E c \in Browsers, p \in Peers : RemoteDescriptionApplied(c, p)
  \/ \E c \in Browsers, p \in Peers : PeerLeft(c, p)
  \/ \E c \in Browsers : PingSent(c)
  \/ \E c \in Browsers, latency \in Latencies : PongReceived(c, latency)
  \/ \E c \in Browsers : PongMissing(c)

SpecPing == Init /\ [][NextPing]_vars

SpecTeardown == Init /\ [][NextTeardown]_vars

\* The rate limiter under load from one address, in production.
NextRate ==
  \/ RateLimitCall("ip")
  \/ Elapse

SpecRate == InitProduction /\ [][NextRate]_vars

\* The rate table of a few addresses under the periodic cleanup.
NextSweep ==
  \/ \E ip \in RateKeys :
       /\ Len(rateLog[ip].attempts) < MaxSweepAttempts
       /\ RateLimitCall(ip)
  \/ Elapse
  \/ Sweep

SpecSweep == InitProduction /\ [][NextSweep]_vars

\* setInterval keeps firing the cleanup.
SpecSweepFair == SpecSweep /\ WF_vars(Sweep)

\* socket.on('join-room') for room r1 with a nickname of the nickname model.
NicknameJoin(s, nickname) ==
  /\ sockets[s] = "connected"
  /\ JoinValidated(s, validateAndSanitizeInput([roomId |-> r1, nickname |-> nickname]))
  /\ UNCHANGED <<sockets, kickTimers, connections, production, now, inflight>>

\* The connections of the nickname model.
NickSockets == {1, 2}

\* Joins of one room under every nickname of the nickname model.
NextNickname ==
  \/ \E s \in NickSockets : Connect(s) /\ UNCHANGED <<clientVars, rateLog>>
  \/ \E s \in NickSockets : \E nickname \in RawNicknames :
       NicknameJoin(s, nickname) /\ UNCHANGED <<clientVars, rateLog>>
  \/ \E s \in NickSockets : Disconnect(s) /\ UNCHANGED <<clientVars, rateLog>>

SpecNickname == Init /\ [][NextNickname]_vars

\* The connections of the kick model.
KickSockets == {1, 2, 3}

\* Kicks among connections that send well-formed joins; the kick timers fire:
\* setTimeout runs its callback once the delay is over.
NextKick ==
  \/ \E s \in KickSockets : Connect(s) /\ UNCHANGED <<clientVars, rateLog>>
  \/ \E s \in KickSockets : \E data \in ValidJoinData(s) : JoinRoom(s, data) /\ UNCHANGED <<clientVars, rateLog>>
  \/ \E s \in KickSockets : Disconnect(s) /\ UNCHANGED <<clientVars, rateLog>>
  \/ \E s, t \in KickSockets : KickUser(s, t) /\ UNCHANGED <<clientVars, rateLog>>
  \/ \E t \in KickSockets : KickTimerFire(t) /\ UNCHANGED <<clientVars, rateLog>>

SpecKickFair ==
  /\ Init /\ [][NextKick]_vars
  /\ \A t \in KickSockets : WF_vars(KickTimerFire(t) /\ UNCHANGED <<clientVars, rateLog>>)

\* Joins, kick requests, kick timers, signals and leaves of three connections.
NextHost ==
  \/ NextKick
  \/ \E s \in KickSockets, to \in KickSockets \cup {0}, sig \in Signals :
       Signal(s, to, sig) /\ UNCHANGED <<clientVars, rateLog>>

SpecHost == Init /\ [][NextHost]_vars

\* socket.on('mute-user'): the handler returns without a word unless the
\* caller is the host of its room, and then emits force-mute to the socket
\* named by targetSocketId (0 for a missing one).
MuteUser(s, targetSocketId) ==
  /\ sockets[s] = "connected"
  /\ lastEmits' =
       IF s \notin DOMAIN userMap \/ targetSocketId = 0 THEN <<>>
       ELSE IF ~IsRoomHost(s) THEN <<>>
       ELSE << [NoEvent EXCEPT !.ev = "force-mute",
                  !.rcpt = ToSocket(sockets, targetSocketId, s)] >>
  /\ lastOp' = [NoOp EXCEPT !.op = "mute-user", !.s = s, !.target = targetSocketId]
  /\ UNCHANGED <<rooms, userMap, sockets, ioRooms, kickTimers, connections,
                 production, now, inflight, deletedRooms>>

\* Joins, leaves and mute requests of three connections.
NextMute ==
  \/ \E s \in KickSockets : Connect(s) /\ UNCHANGED <<clientVars, rateLog>>
  \/ \E s \in KickSockets : \E data \in ValidJoinData(s) :
       JoinRoom(s, data) /\ UNCHANGED <<clientVars, rateLog>>
  \/ \E s \in KickSockets : Disconnect(s) /\ UNCHANGED <<clientVars, rateLog>>
  \/ \E s \in KickSockets, t \in KickSockets \cup {0} :
       MuteUser(s, t) /\ UNCHANGED <<clientVars, rateLog>>

SpecMute == Init /\ [][NextMute]_vars

\* The periodic cleanup among joins, leaves and kicks, over days.
NextRoomSweep ==
  \/ \E s \in KickSockets : Connect(s) /\ UNCHANGED <<clientVars, rateLog>>
  \/ \E s \in KickSockets : \E data \in ValidJoinData(s) :
       JoinRoom(s, data) /\ UNCHANGED <<clientVars, rateLog>>
  \/ \E s \in KickSockets : Disconnect(s) /\ UNCHANGED <<clientVars, rateLog>>
  \/ \E s, t \in KickSockets : KickUser(s, t) /\ UNCHANGED <<clientVars, rateLog>>
  \/ \E t \in KickSockets : KickTimerFire(t) /\ UNCHANGED <<clientVars, rateLog>>
  \/ DayPasses
  \/ Sweep

SpecRoomSweep == Init /\ [][NextRoomSweep]_vars

\* One address is rejected by the limiter and calls again after the reported
\* interval.
NextRetry ==
  \/ /\ Len(RecentConnections(rateLog["ip"].attempts)) < MaxRetryAttempts
     /\ RateLimitCall("ip")
  \/ Pause
  \/ RetryWait("ip")

SpecRetry == InitProduction /\ [][NextRetry]_vars

\* The connections of the gate model.
GateSockets == {1, 2}

\* The limiter in front of the handlers: an address opens connections that
\* are not followed further, and two that are.
NextGate ==
  \/ /\ Len(rateLog["ip"].attempts) < MaxGateAttempts
     /\ RateLimitCall("ip")
  \/ \E s \in GateSockets : Connect(s) /\ UNCHANGED <<clientVars, rateLog>>
  \/ \E s \in GateSockets : \E data \in ValidJoinData(s) : JoinRoom(s, data) /\ UNCHANGED <<clientVars, rateLog>>
  \/ \E s, to \in GateSockets : \E sig \in Signals : Signal(s, to, sig) /\ UNCHANGED <<clientVars, rateLog>>
  \/ \E s, t \in GateSockets : KickUser(s, t) /\ UNCHANGED <<clientVars, rateLog>>
  \/ \E t \in GateSockets : KickTimerFire(t) /\ UNCHANGED <<clientVars, rateLog>>
  \/ \E s \in GateSockets : \E message \in ChatMessages : ChatMessage(s, message) /\ UNCHANGED <<clientVars, rateLog>>
  \/ \E s \in GateSockets : Disconnect(s) /\ UNCHANGED <<clientVars, rateLog>>

SpecGate == InitProduction /\ [][NextGate]_vars

\* ------------------------------------------------------------------ claims
Members(r) == Range(rooms[r].users)

\* The indices of the events of a given name in an event list.
EventsNamed(emits, ev) == {i \in 1 .. Len(emits) : emits[i].ev = ev}

\* The step is the close of connection s, a member of room r.
LeaveStep(s, r) ==
  /\ sockets[s] = "connected" /\ sockets'[s] = "closed"
  /\ s \in DOMAIN userMap /\ userMap[s].roomId = r /\ r \in DOMAIN rooms

\* The step handles a well-formed join-room request for room r from a
\* connection that has no membership yet.
JoinStep(s, r) ==
  /\ lastOp'.op = "join-room" /\ lastOp'.valid
  /\ lastOp'.s = s /\ lastOp'.roomId = r
  /\ s \notin DOMAIN userMap

\* C1: in every state reached by joins, leaves and kicks, every stored room
\* has one host, and that host is a current member of the room.
C1_HostIsMember ==
  \A r \in DOMAIN rooms :
    rooms[r].host \in Sockets /\ rooms[r].host \in Members(r)

\* C1 witness: a room with two or more members one of whom has a kick pending,
\* after another connection has left.
C1_Witness ==
  \E r \in DOMAIN rooms :
    /\ Len(rooms[r].users) >= 2
    /\ kickTimers \cap Members(r) # {}
    /\ \E s \in Sockets : sockets[s] = "closed"

C2_FullRoomRejects ==
  \A s \in Sockets : \A r \in DOMAIN rooms :
    (JoinStep(s, r) /\ Len(rooms[r].users) >= rooms[r].maxUsers)
    => /\ lastEmits' = <<[ErrorTo(s, "ROOM_FULL") EXCEPT !.roomId = r,
                            !.maxUsers = rooms[r].maxUsers,
                            !.userCount = Len(rooms[r].users)]>>
       /\ rooms' = rooms
       /\ userMap' = userMap

\* C2: no room ever has more members than its capacity maxUsers, and a join
\* (well-formed, from a connection without a membership) to a room that holds
\* maxUsers members is answered with ROOM_FULL and admits nobody.
C2_Capacity ==
  /\ [](\A r \in DOMAIN rooms : Len(rooms[r].users) <= rooms[r].maxUsers)
  /\ [][C2_FullRoomRejects]_vars

\* C2 witness: a join was just refused with ROOM_FULL at a room at capacity.
C2_Witness ==
  /\ Len(lastEmits) = 1
  /\ lastEmits[1].type = "ROOM_FULL"
  /\ lastEmits[1].roomId \in DOMAIN rooms
  /\ Len(rooms[lastEmits[1].roomId].users) = MaxUsers
  /\ lastOp.s \notin Members(lastEmits[1].roomId)

\* The connections a step adds to room r.
Admitted(r) ==
  (IF r \in DOMAIN rooms' THEN Range(rooms'[r].users) ELSE {})
    \ (IF r \in DOMAIN rooms THEN Range(rooms[r].users) ELSE {})

\* The join requests in transit that ask for room r.
InFlightFor(r) == {m \in inflight : Validated[m.data].sanitized.roomId = r}

C3_OneAdmissionPerStep ==
  \A r \in DOMAIN rooms' :
    /\ Cardinality(Admitted(r)) <= 1
    /\ (r \in DOMAIN rooms /\ Len(rooms[r].users) >= rooms[r].maxUsers)
         => Admitted(r) = {}
    /\ \A m \in InFlightFor(r) :
         (/\ r \in DOMAIN rooms
          /\ Len(rooms[r].users) >= rooms[r].maxUsers
          /\ m \notin inflight'
          /\ sockets'[m.s] = "connected"
          /\ m.s \notin DOMAIN userMap)
         => lastEmits'[1].type = "ROOM_FULL"

\* C3: with join requests of several connections for one room in transit, in
\* whatever order they are handled, every step admits at most one connection
\* and none to a room at capacity, so a room never exceeds maxUsers: of the
\* requests racing for the last free slot one is admitted and the others are
\* answered with ROOM_FULL.
C3_ConcurrentJoinsSerialized ==
  /\ [](\A r \in DOMAIN rooms : Len(rooms[r].users) <= rooms[r].maxUsers)
  /\ [][C3_OneAdmissionPerStep]_vars

\* C3 witness: two requests for the same room were in transit while it had one
\* free slot; the first handled was just admitted and filled the room, the
\* other is still in transit.
C3_Witness ==
  /\ lastOp.op = "join-room"
  /\ lastOp.roomId \in DOMAIN rooms
  /\ Len(rooms[lastOp.roomId].users) = MaxUsers
  /\ rooms[lastOp.roomId].users[MaxUsers] = lastOp.s
  /\ \E m \in InFlightFor(lastOp.roomId) :
       m.s # lastOp.s /\ m.s \notin DOMAIN userMap

\* Two nicknames are equal when compared case-insensitively.
SameNickname(a, b) == toLowerCase(a) = toLowerCase(b)

C4_CollidingJoinRejected ==
  \A s \in Sockets : \A r \in DOMAIN rooms :
    (/\ JoinStep(s, r)
     /\ Len(rooms[r].users) < rooms[r].maxUsers
     /\ \E m \in Members(r) : SameNickname(userMap[m].nickname, lastOp'.nickname))
    => /\ lastEmits' = <<[ErrorTo(s, "NICKNAME_TAKEN") EXCEPT !.roomId = r,
                            !.nickname = lastOp'.nickname]>>
       /\ rooms' = rooms
       /\ userMap' = userMap

\* C4: no two members of one room have nicknames that are equal
\* case-insensitively, and a join (one that reaches the nickname check) whose
\* nickname collides with a member's is answered with NICKNAME_TAKEN.
C4_NicknamesUnique ==
  /\ [](\A r \in DOMAIN rooms : \A a, b \in Members(r) :
          a # b => ~SameNickname(userMap[a].nickname, userMap[b].nickname))
  /\ [][C4_CollidingJoinRejected]_vars

\* C4 witness: a join was refused with NICKNAME_TAKEN for a nickname that
\* differs from a member's only in case.
C4_Witness ==
  /\ Len(lastEmits) = 1
  /\ lastEmits[1].type = "NICKNAME_TAKEN"
  /\ \E m \in Members(lastEmits[1].roomId) :
       /\ userMap[m].nickname # lastEmits[1].nickname
       /\ SameNickname(userMap[m].nickname, lastEmits[1].nickname)

\* The step is the leave of the host s of room r, with other members left.
HostLeaveStep(s, r) ==
  /\ LeaveStep(s, r)
  /\ rooms[r].host = s
  /\ Members(r) \ {s} # {}

C5_HostLeave ==
  \A s \in Sockets : \A r \in DOMAIN rooms :
    HostLeaveStep(s, r)
    => /\ r \in DOMAIN rooms'
       /\ Range(rooms'[r].users) = Members(r) \ {s}
       /\ Cardinality(EventsNamed(lastEmits', "new-host")) = 1
       /\ \A i \in EventsNamed(lastEmits', "new-host") :
            /\ lastEmits'[i].id \in Range(rooms'[r].users)
            /\ lastEmits'[i].id = rooms'[r].host
            /\ lastEmits'[i].rcpt = Range(rooms'[r].users)

\* C5: when the host leaves and other members remain, exactly one new-host
\* event is broadcast to the room, it names a remaining member, and the room
\* persists with the remaining members.
C5_OneHostChanged == [][C5_HostLeave]_vars

\* C5 witness: the last step was the leave of a host, announced by new-host.
C5_Witness ==
  /\ EventsNamed(lastEmits, "new-host") # {}
  /\ \A i \in EventsNamed(lastEmits, "new-host") :
       /\ lastEmits[i].roomId \in DOMAIN rooms
       /\ rooms[lastEmits[i].roomId].host = lastEmits[i].id

C6_EarliestBecomesHost ==
  \A s \in Sockets : \A r \in DOMAIN rooms :
    HostLeaveStep(s, r)
    => /\ rooms'[r].host \in Members(r) \ {s}
       /\ \A m \in Members(r) \ {s} :
            userMap[rooms'[r].host].joinedAt <= userMap[m].joinedAt
       /\ Len(lastEmits') = 3
       /\ lastEmits'[1].ev = "host-transferred"
       /\ lastEmits'[1].rcpt = {rooms'[r].host}
       /\ lastEmits'[2].ev = "new-host"
       /\ lastEmits'[2].id = rooms'[r].host
       /\ lastEmits'[3].ev = "user-left"
       /\ lastEmits'[3].id = s

\* C6: when the host leaves a room that stays non-empty, the new host is the
\* remaining member who joined earliest; host-transferred goes to the new
\* host alone, then new-host is broadcast, then user-left for the old host.
C6_HostTransferOrder == [][C6_EarliestBecomesHost]_vars

\* C6 witness: a host left two members who joined at different times, and the
\* earlier of them is the host.
C6_Witness ==
  /\ Len(lastEmits) = 3
  /\ lastEmits[2].ev = "new-host"
  /\ \E r \in DOMAIN rooms :
       /\ lastEmits[2].roomId = r
       /\ Len(rooms[r].users) >= 2
       /\ userMap[rooms[r].users[1]].joinedAt < userMap[rooms[r].users[2]].joinedAt
       /\ rooms[r].host = rooms[r].users[1]

C7_LastLeaveDeletes ==
  \A s \in Sockets : \A r \in DOMAIN rooms :
    (LeaveStep(s, r) /\ Members(r) = {s}) => r \notin DOMAIN rooms'

C7_JoinCreatesFresh ==
  \A s \in Sockets : \A r \in deletedRooms :
    (JoinStep(s, r) /\ r \notin DOMAIN rooms)
    => /\ r \in DOMAIN rooms'
       /\ rooms'[r].created = now
       /\ rooms'[r].host = s
       /\ rooms'[r].users = <<s>>
       /\ lastEmits'[1].ev = "existing-users"
       /\ lastEmits'[1].isHost /\ lastEmits'[1].users = <<>>

\* C7: when the last member leaves, the room is removed; a later join with
\* the same id creates a new room, created at the time of that join, whose
\* host and only member is the joiner. No member of a room is a closed
\* connection, so nothing of the deleted room is carried over.
C7_RoomLifetime ==
  /\ [][C7_LastLeaveDeletes /\ C7_JoinCreatesFresh]_vars
  /\ [](\A r \in DOMAIN rooms : \A m \in Members(r) : sockets[m] = "connected")

\* C7 witness: a room whose id was deleted before exists again, created later.
C7_Witness ==
  \E r \in deletedRooms :
    /\ r \in DOMAIN rooms
    /\ rooms[r].created > 0
    /\ rooms[r].host \in Members(r)

\* Sender and recipient are known participants of the same room.
RoomMates(s, t) ==
  /\ s \in DOMAIN userMap /\ t \in DOMAIN userMap
  /\ userMap[s].roomId = userMap[t].roomId

RoutingErrors == {"USER_NOT_FOUND", "ROOM_MISMATCH", "INVALID_SIGNAL"}

\* C8: a signal is delivered only if sender and recipient are known
\* participants of the same room; otherwise the sender alone gets a routing
\* error and nothing is delivered.
C8_RelayOnlyRoomMates ==
  lastOp.op = "signal" =>
    /\ EventsNamed(lastEmits, "signal") # {} => RoomMates(lastOp.s, lastOp.target)
    /\ ~RoomMates(lastOp.s, lastOp.target) =>
         /\ Len(lastEmits) = 1
         /\ lastEmits[1].ev = "error"
         /\ lastEmits[1].type \in RoutingErrors
         /\ lastEmits[1].rcpt = {lastOp.s}

\* C8 witness: a signal between participants of different rooms was refused.
C8_Witness ==
  /\ lastOp.op = "signal"
  /\ lastOp.s \in DOMAIN userMap /\ lastOp.target \in DOMAIN userMap
  /\ userMap[lastOp.s].roomId # userMap[lastOp.target].roomId
  /\ lastEmits = <<ErrorTo(lastOp.s, "ROOM_MISMATCH")>>

\* Sequence a is an initial part of sequence b.
IsPrefix(a, b) == Len(a) <= Len(b) /\ SubSeq(b, 1, Len(a)) = a

\* C9: at every browser and for every link, the candidates that arrived
\* before the link's remote description was applied are held in the link's
\* queue, in arrival order, until the description is applied, and are then
\* the first candidates applied to the link, in arrival order.
C9_EarlyCandidatesQueuedInOrder ==
  \A c \in Browsers : \A p \in DOMAIN history[c].early :
    IF RemoteDescriptionSet(rtcManager[c], p)
    THEN IsPrefix(history[c].early[p], rtcManager[c].peers[p].applied)
    ELSE /\ p \in DOMAIN rtcManager[c].pendingCandidates
         /\ rtcManager[c].pendingCandidates[p] = history[c].early[p]

\* The offers browser c has emitted toward u.
OffersTo(c, u) ==
  {i \in 1 .. Len(history[c].emitted) :
     history[c].emitted[i] = [to |-> u, signal |-> [type |-> "offer", payload |-> 0]]}

\* C10: a browser that joined has emitted exactly one offer addressed to the
\* id of each member that existing-users listed, and it emits offers toward
\* nobody else: a member that learns of a joiner by user-joined sends it no
\* offer.
C10_JoinerInitiates ==
  \A c \in Browsers :
    /\ \A u \in history[c].listed : Cardinality(OffersTo(c, u)) = 1
    /\ \A i \in 1 .. Len(history[c].emitted) :
         history[c].emitted[i].signal.type = "offer"
           => history[c].emitted[i].to \in history[c].listed

\* The timer that fired is the restart timeout of the peer connection that
\* this.peers holds for its peer.
RestartTimeoutOf(m, t) ==
  /\ t.kind = "restart"
  /\ t.peer \in DOMAIN m.peers
  /\ m.peers[t.peer].id = t.pc

\* C11: when the restart timeout of a link whose transport reported failed
\* fires and the link is not connected at that moment, whatever else its
\* transport state is, the link is removed from the active-link set
\* this.peers.
C11_RestartTimeoutRemoves ==
  [][\A c \in Browsers :
       (/\ eventLoop'[c].fired # NoTimer
        /\ eventLoop'[c].timers # eventLoop[c].timers
        /\ RestartTimeoutOf(rtcManager[c], eventLoop'[c].fired)
        /\ eventLoop'[c].fired.pc \in eventLoop[c].failedSeen
        /\ rtcManager[c].peers[eventLoop'[c].fired.peer].connectionState # "connected")
       => eventLoop'[c].fired.peer \notin DOMAIN rtcManager'[c].peers]_vars

\* C12: a call of the limiter that is the 81st or a later attempt of its key
\* inside one rate window is rejected, and the limit in force is 5.
C12_EightyFirstRejectedAtFive ==
  \A k \in RateKeys :
    (rateLog[k].last.called /\ rateLog[k].last.window >= 81)
    => (~rateLog[k].last.allowed /\ rateLog[k].last.limit = 5)

\* A step of the periodic cleanup: the clock stands and the limiter is not called.
SweepStep == now' = now /\ \A k \in RateKeys : ~rateLog'[k].last.called

\* The record of ip holds a timestamp inside the rate window.
HasLive(ip) == ip \in DOMAIN connections /\ Len(RecentConnections(connections[ip])) > 0

\* The record of ip holds timestamps, all of them outside the rate window.
Expired(ip) == ip \in DOMAIN connections /\ Len(RecentConnections(connections[ip])) = 0

\* C13 (as stated): a sweep neither removes nor shortens the record of a key
\* that still has a timestamp inside the window.
C13_SweepNeverShortens ==
  [][SweepStep =>
       \A ip \in RateKeys :
         HasLive(ip) => (ip \in DOMAIN connections' /\ connections'[ip] = connections[ip])]_vars

\* C13 (amended): a key whose window has elapsed loses its record in the end
\* unless the limiter is called for it again; and a sweep keeps the record of
\* a key that has a timestamp inside the window, dropping from it exactly the
\* timestamps outside the window.
C13_SweepEvictsExpiredOnly ==
  /\ \A ip \in RateKeys :
       Expired(ip) ~> (ip \notin DOMAIN connections \/ rateLog[ip].last.called)
  /\ [][SweepStep =>
          \A ip \in RateKeys :
            HasLive(ip) => (/\ ip \in DOMAIN connections'
                            /\ connections'[ip] = RecentConnections(connections[ip]))]_vars

\* A sweep has evicted the expired record of one key and kept, pruned, the
\* record of another that was admitted inside the window.
C13_Witness ==
  \E ip, other \in RateKeys :
    /\ rateLog[ip].attempts # <<>> /\ ip \notin DOMAIN connections
    /\ HasLive(other) /\ Len(connections[other]) < Len(rateLog[other].attempts)

\* The rooms whose member list holds s.
RoomsOf(s) == {r \in DOMAIN rooms : s \in Members(r)}

\* Every id is a member of at most one room, the one its participant record names.
AtMostOneRoom ==
  \A s \in Sockets :
    /\ Cardinality(RoomsOf(s)) <= 1
    /\ s \in DOMAIN userMap => RoomsOf(s) = {userMap[s].roomId}

\* The step handles a join-room request of a socket that has a membership.
MemberJoinStep == lastOp'.op = "join-room" /\ lastOp'.s \in DOMAIN userMap

\* C14: every id is in at most one room; a join of a member is answered with
\* one error, admits nobody and changes no record, and the error of a request
\* that passed validation (the step before) is ALREADY_IN_ROOM, whatever room
\* it names.
C14_OneRoomPerParticipant ==
  /\ []AtMostOneRoom
  /\ [][MemberJoinStep =>
          /\ Len(lastEmits') = 1 /\ lastEmits'[1].ev = "error"
          /\ lastEmits'[1].rcpt = {lastOp'.s}
          /\ lastOp'.valid => lastEmits' = <<ErrorTo(lastOp'.s, "ALREADY_IN_ROOM")>>
          /\ UNCHANGED <<rooms, userMap, ioRooms>>]_vars

\* A member of one room asked to join another room, one that does not exist,
\* and was refused.
C14_Witness ==
  /\ lastOp.op = "join-room" /\ lastOp.valid
  /\ lastOp.s \in DOMAIN userMap
  /\ userMap[lastOp.s].roomId # lastOp.roomId
  /\ lastOp.roomId \notin DOMAIN rooms
  /\ lastEmits = <<ErrorTo(lastOp.s, "ALREADY_IN_ROOM")>>

\* The events of the list that tell their receiver whether it is the host.
HostFlags(emits) ==
  {emits[i] : i \in EventsNamed(emits, "existing-users") \cup EventsNamed(emits, "room-joined")}

InvalidJoinStep == lastOp'.op = "join-room" /\ ~lastOp'.valid

\* C16: every join request that violates a validation rule is answered with
\* one VALIDATION_ERROR that lists violated rules, and changes no record.
C16_InvalidJoinValidationError ==
  [][InvalidJoinStep =>
       /\ Len(lastEmits') = 1
       /\ lastEmits'[1].ev = "error" /\ lastEmits'[1].rcpt = {lastOp'.s}
       /\ lastEmits'[1].type = "VALIDATION_ERROR"
       /\ lastEmits'[1].details # <<>>
       /\ UNCHANGED <<rooms, userMap, ioRooms>>]_vars

\* The nickname is 2 to 20 characters long, does not begin or end with
\* whitespace and holds no two whitespace characters in a row.
Normalized(n) ==
  /\ Len(n) >= 2 /\ Len(n) <= 20
  /\ ~IsSpace(n[1]) /\ ~IsSpace(n[Len(n)])
  /\ \A i \in 1 .. Len(n) - 1 : ~(IsSpace(n[i]) /\ IsSpace(n[i + 1]))

\* C17: the nickname stored for every admitted participant is normalized.
C17_StoredNicknameNormalized ==
  \A s \in DOMAIN userMap : Normalized(userMap[s].nickname)

\* The step handles a join-room request and answers it with an error.
RejectedJoinStep ==
  /\ lastOp'.op = "join-room"
  /\ EventsNamed(lastEmits', "error") # {}

\* The kinds of error a join-room request is answered with.
JoinErrors ==
  {"VALIDATION_ERROR", "ALREADY_IN_ROOM", "ROOM_FULL", "NICKNAME_TAKEN", "SERVER_ERROR"}

\* C18: a join answered with an error of any kind is answered with nothing
\* else and leaves the room table and the participant table as they were; no
\* room of the table is ever without members.
C18_RejectedJoinChangesNothing ==
  /\ [](\A r \in DOMAIN rooms : Members(r) # {})
  /\ [][RejectedJoinStep =>
          /\ Len(lastEmits') = 1 /\ lastEmits'[1].type \in JoinErrors
          /\ UNCHANGED <<rooms, userMap, ioRooms>>]_vars

\* A socket without a membership was refused for its nickname, and is in no room.
C18_Witness ==
  /\ lastOp.op = "join-room"
  /\ Len(lastEmits) = 1 /\ lastEmits[1].type = "NICKNAME_TAKEN"
  /\ lastOp.s \notin DOMAIN userMap
  /\ RoomsOf(lastOp.s) = {}
  /\ lastOp.roomId \in DOMAIN rooms

\* The members of room r in the order they joined; none if the room is not stored.
MembersInOrder(r) == IF r \in DOMAIN rooms THEN rooms[r].users ELSE <<>>

\* C19: on every admitted join the existing-users event goes to the joiner and
\* lists the members the room had before the join, in joining order, each
\* with its id and its nickname; and each of those members, and nobody else,
\* is sent one user-joined event with the joiner's id and nickname.
C19_ExistingMembersListed ==
  [][\A s \in Sockets : \A r \in {lastOp'.roomId} :
       (JoinStep(s, r) /\ s \in DOMAIN userMap') =>
         /\ Len(lastEmits') = 3
         /\ lastEmits'[1].ev = "existing-users" /\ lastEmits'[1].rcpt = {s}
         /\ lastEmits'[1].users = MembersInOrder(r)
         /\ lastEmits'[2].ev = "user-joined"
         /\ lastEmits'[2].rcpt = Range(MembersInOrder(r))
         /\ lastEmits'[2].id = s /\ lastEmits'[2].nickname = userMap'[s].nickname
         /\ lastEmits'[3].ev = "room-joined"
         /\ \A i \in 1 .. Len(lastEmits'[1].users) :
              UserNickname(lastEmits'[1].users[i])
                = Str(userMap[lastEmits'[1].users[i]].nickname)]_vars

\* C19, the part about ids and notices only: the list holds the ids of the
\* earlier members in joining order and each of them gets the one notice.
C19_IdsAndNotices ==
  [][\A s \in Sockets : \A r \in {lastOp'.roomId} :
       (JoinStep(s, r) /\ s \in DOMAIN userMap') =>
         /\ lastEmits'[1].users = MembersInOrder(r)
         /\ EventsNamed(lastEmits', "user-joined") = {2}
         /\ lastEmits'[2].rcpt = Range(MembersInOrder(r))
         /\ lastEmits'[2].id = s /\ lastEmits'[2].nickname = userMap'[s].nickname]_vars

\* The step handles a signal request with both fields present, sent by a
\* member to another member of its room.
RelayStep(s, to) ==
  /\ lastOp'.op = "signal" /\ lastOp'.s = s /\ lastOp'.target = to
  /\ lastOp'.signal # NoSignal
  /\ s # to /\ RoomMates(s, to)

\* C20: a signal between two distinct members of one room is emitted once, to
\* the recipient only, with the signal as submitted, the sender's id and the
\* id of the room the two share; the handler changes no room or participant
\* record.
C20_RelayDeliversUnchanged ==
  [][\A s, to \in Sockets :
       RelayStep(s, to) =>
         /\ Len(lastEmits') = 1
         /\ lastEmits'[1].ev = "signal"
         /\ lastEmits'[1].rcpt = {to}
         /\ lastEmits'[1].signal = lastOp'.signal
         /\ lastEmits'[1].id = s
         /\ lastEmits'[1].roomId = userMap[s].roomId
         /\ lastEmits'[1].roomId = userMap[to].roomId
         /\ UNCHANGED <<rooms, userMap, ioRooms>>]_vars

\* An ICE candidate was relayed between two members of a room of three.
C20_Witness ==
  /\ lastOp.op = "signal" /\ lastOp.signal.type = "ice-candidate"
  /\ lastOp.s # lastOp.target /\ RoomMates(lastOp.s, lastOp.target)
  /\ Len(rooms[userMap[lastOp.s].roomId].users) = 3
  /\ Len(lastEmits) = 1 /\ lastEmits[1].ev = "signal"
  /\ lastEmits[1].rcpt = {lastOp.target}

\* The step handles a kick-user request of s against target.
KickStep(s, target) ==
  lastOp'.op = "kick-user" /\ lastOp'.s = s /\ lastOp'.target = target

\* s is the host of the room its participant record names.
HostOfOwnRoom(s) ==
  /\ s \in DOMAIN userMap
  /\ userMap[s].roomId \in DOMAIN rooms
  /\ rooms[userMap[s].roomId].host = s

KickErrors == {"INVALID_KICK_REQUEST", "UNAUTHORIZED", "SELF_KICK", "USER_NOT_IN_ROOM"}

\* C21: a kick request whose requester is not the host of its room, whose
\* target is the requester, or whose target is missing, unknown or not in the
\* requester's room is answered with one error to the requester; it sends no
\* 'kicked' and no 'user-kicked', starts no disconnect timer and changes no
\* room or participant record.
C21_KickRejected ==
  [][\A s \in Sockets : \A target \in Sockets \cup {0} :
       (/\ KickStep(s, target)
        /\ \/ ~HostOfOwnRoom(s)
           \/ target = s
           \/ ~RoomMates(s, target)) =>
         /\ Len(lastEmits') = 1
         /\ lastEmits'[1].ev = "error" /\ lastEmits'[1].rcpt = {s}
         /\ lastEmits'[1].type \in KickErrors
         /\ UNCHANGED <<rooms, userMap, ioRooms, kickTimers, sockets>>]_vars

\* A member that is not the host asked to kick a room-mate and was refused.
C21_Witness ==
  /\ lastOp.op = "kick-user"
  /\ lastOp.s # lastOp.target /\ RoomMates(lastOp.s, lastOp.target)
  /\ ~HostOfOwnRoom(lastOp.s)
  /\ lastEmits = <<ErrorTo(lastOp.s, "UNAUTHORIZED")>>
  /\ kickTimers = {}

\* The step handles the host's kick-user request against a distinct room-mate.
AcceptedKickStep(s, target) ==
  /\ KickStep(s, target)
  /\ HostOfOwnRoom(s) /\ target # s /\ RoomMates(s, target)

RecordedInWindow(ip) ==
  IF ip \in DOMAIN connections THEN Len(RecentConnections(connections[ip])) ELSE 0

\* C23: a call of the limiter for a key with fewer than RATE_LIMIT admissions
\* recorded inside the window is allowed.
C23_AllowedBelowRateLimit ==
  [][\A ip \in RateKeys :
       (rateLog'[ip].last.called /\ RecordedInWindow(ip) < RATE_LIMIT)
       => rateLog'[ip].last.allowed]_vars

\* The oldest timestamp of ip inside the window.
OldestInWindow(ip) == MathMin(RecentConnections(connections[ip]))

\* C24: the retryAfter of a rejection is the least whole number of seconds
\* after which the oldest timestamp of the key inside the window is outside
\* it, it is above 0 and at most the window length; and the call made right
\* after waiting for that interval is allowed.
C24_RetryAfterSuffices ==
  /\ [](\A ip \in RateKeys :
          (rateLog[ip].last.called /\ ~rateLog[ip].last.allowed) =>
            /\ rateLog[ip].last.retryAfter > 0
            /\ rateLog[ip].last.retryAfter * 1000 <= RATE_WINDOW
            /\ (now + 1000 * rateLog[ip].last.retryAfter) - OldestInWindow(ip)
                 >= RATE_WINDOW
            /\ (now + 1000 * (rateLog[ip].last.retryAfter - 1)) - OldestInWindow(ip)
                 < RATE_WINDOW)
  /\ [](\A ip \in RateKeys :
          (rateLog[ip].last.called /\ rateLog[ip].last.waited)
          => rateLog[ip].last.allowed)

\* The key was rejected at a time that is not a whole second, waited for the
\* reported interval and was then admitted.
C24_Witness ==
  /\ rateLog["ip"].last.called /\ rateLog["ip"].last.waited
  /\ rateLog["ip"].last.allowed
  /\ now % 1000 # 0
  /\ Len(connections["ip"]) > 1

\* The step is the rejection of connection s by the rate limiter.
RateLimitedStep(s) ==
  sockets[s] = "fresh" /\ lastEmits' = <<ErrorTo(s, "RATE_LIMIT")>>

\* The events of the list that carry s as their origin.
EventsFrom(emits, s) == {i \in 1 .. Len(emits) : emits[i].id = s}

\* C25: the rejection by the limiter closes the connection in the same step
\* and changes no record; a closed connection stays closed, holds no
\* participant record, no room membership and no socket.io room, no request
\* of it is handled and no event is sent on its behalf.
C25_RateLimitedNeverActs ==
  /\ [][\A s \in Sockets :
          RateLimitedStep(s) =>
            /\ sockets'[s] = "closed"
            /\ UNCHANGED <<rooms, userMap, ioRooms, connections>>]_vars
  /\ [](\A s \in Sockets :
          sockets[s] = "closed" =>
            /\ s \notin DOMAIN userMap /\ RoomsOf(s) = {}
            /\ \A r \in DOMAIN rooms : <<r, s>> \notin ioRooms)
  /\ [][\A s \in Sockets :
          sockets[s] = "closed" =>
            /\ sockets'[s] = "closed"
            /\ lastOp'.op # "" => lastOp'.s # s
            /\ EventsFrom(lastEmits', s) = {}]_vars

\* The limiter has just rejected a connection while an earlier connection of
\* the same address is in a room.
C25_Witness ==
  \E s \in Sockets :
    /\ lastEmits = <<ErrorTo(s, "RATE_LIMIT")>>
    /\ sockets[s] = "closed"
    /\ \E r \in DOMAIN rooms : Members(r) # {} /\ s \notin Members(r)

\* The link to peer p at browser c is gone: this.peers has no entry for p and
\* this.pendingCandidates has no queue for p.
LinkGone(m, p) == p \notin DOMAIN m.peers /\ p \notin DOMAIN m.pendingCandidates

\* C26: after a teardown of the link to peer P (removePeer) the active-link
\* set has no entry for P and no candidate queue exists for P, and that stays
\* so while no new link to P is created, also when a queue flush for P was
\* suspended at the moment of the teardown: a step that removes P's entry
\* leaves no queue for P, and a step that starts without entry and queue and
\* creates no entry creates no queue.
C26_TeardownLeavesNoQueue ==
  [][\A c \in Browsers, p \in Peers :
       /\ (p \in DOMAIN rtcManager[c].peers /\ p \notin DOMAIN rtcManager'[c].peers)
            => LinkGone(rtcManager'[c], p)
       /\ (LinkGone(rtcManager[c], p) /\ p \notin DOMAIN rtcManager'[c].peers)
            => LinkGone(rtcManager'[c], p)]_vars

\* What browser c holds for the link to peer q: the entry in this.peers with
\* its negotiation state, the candidate queue, and the suspended flushes.
LinkView(m, loop, q) ==
  [entry |-> IF q \in DOMAIN m.peers THEN <<m.peers[q]>> ELSE <<>>,
   queue |-> IF q \in DOMAIN m.pendingCandidates THEN <<m.pendingCandidates[q]>> ELSE <<>>,
   flushes |-> SelectSeq(loop.flushes, LAMBDA f : f.peer = q)]

\* C27: a step that tears down the link to one peer (the restart timeout, a
\* failed negotiation, or the peer leaving) leaves every other link of the
\* browser as it was (entry, negotiation state, candidate queue) and leaves
\* the server's room table, user table and socket.io rooms unchanged.
C27_TeardownLeavesOtherLinks ==
  [][\A c \in Browsers, p \in Peers :
       (p \in DOMAIN rtcManager[c].peers /\ p \notin DOMAIN rtcManager'[c].peers)
         => /\ \A q \in Peers \ {p} :
                 LinkView(rtcManager'[c], eventLoop'[c], q)
                   = LinkView(rtcManager[c], eventLoop[c], q)
            /\ UNCHANGED <<rooms, userMap, ioRooms>>]_vars

\* The restart timeout has just torn down one link while the browser holds
\* another link, which has its remote description and an applied candidate,
\* and all participants are members of a room.
C27_Witness ==
  \E c \in Browsers, p, q \in Peers :
    /\ p # q
    /\ eventLoop[c].removed = {p}
    /\ eventLoop[c].fired.kind = "restart"
    /\ q \in DOMAIN rtcManager[c].peers
    /\ rtcManager[c].peers[q].remoteDescription
    /\ rtcManager[c].peers[q].applied # <<>>
    /\ InCall

\* C28: between handler executions every room of the room table has at least
\* one member, and that member's participant record names the room.
C28_NoEmptyRoomStored ==
  \A r \in DOMAIN rooms :
    /\ Len(rooms[r].users) >= 1
    /\ \E s \in Sockets :
         s \in Members(r) /\ s \in DOMAIN userMap /\ userMap[s].roomId = r

\* A room has lost its last member and left the table while another room,
\* which has lost a member, is still stored.
C28_Witness ==
  /\ deletedRooms # {}
  /\ \E r \in DOMAIN rooms :
       /\ r \notin deletedRooms
       /\ \E s \in Sockets : sockets[s] = "closed" /\ Members(r) # {}
  /\ lastOp = NoOp /\ \E i \in 1 .. Len(lastEmits) : lastEmits[i].ev = "user-left"

\* The step gives a candidate to addIceCandidate of the peer connection that
\* browser c holds for peer p.
CandidateApplied(c, p) ==
  /\ p \in DOMAIN rtcManager[c].peers /\ p \in DOMAIN rtcManager'[c].peers
  /\ rtcManager'[c].peers[p].id = rtcManager[c].peers[p].id
  /\ rtcManager'[c].peers[p].applied # rtcManager[c].peers[p].applied

\* C29: whenever a candidate is applied to a link (on arrival, by a flush of
\* the queue, or by the flush at connectionState connected), the remote
\* description of that link had been applied before the step; so no link
\* without a remote description has an applied candidate.
C29_CandidateAfterRemoteDescription ==
  /\ [](\A c \in Browsers : \A p \in DOMAIN rtcManager[c].peers :
          rtcManager[c].peers[p].applied # <<>> => rtcManager[c].peers[p].remoteDescription)
  /\ [][\A c \in Browsers, p \in Peers :
          CandidateApplied(c, p) => rtcManager[c].peers[p].remoteDescription]_vars

\* A flush has just applied a queued candidate to a link that had been given
\* a candidate on arrival before.
C29_Witness ==
  \E c \in Browsers :
    /\ eventLoop[c].flushed # NoFlush
    /\ eventLoop[c].flushed.peer \in DOMAIN rtcManager[c].peers
    /\ rtcManager[c].peers[eventLoop[c].flushed.peer].id = eventLoop[c].flushed.pc
    /\ Len(rtcManager[c].peers[eventLoop[c].flushed.peer].applied) >= 2
    /\ rtcManager[c].peers[eventLoop[c].flushed.peer].remoteDescription

\* The step resumes a suspended run of processPendingCandidates at browser c.
FlushAdvanced(c) ==
  /\ eventLoop'[c].flushes # eventLoop[c].flushes
  /\ Len(eventLoop'[c].flushes) <= Len(eventLoop[c].flushes)

\* The candidates of the queue of flush f that were not rejected, in order.
Accepted(f) ==
  SelectSeq(f.queue, LAMBDA x : \A i \in 1 .. Len(f.skipped) : f.skipped[i] # x)

\* The candidates of the queue of flush f among those applied to peer
\* connection pc, in the order of their application.
AppliedOf(pc, f) ==
  SelectSeq(pc.applied, LAMBDA x : \E i \in 1 .. Len(f.queue) : f.queue[i] = x)

\* C30: a rejected candidate of a flush is skipped: no step of a flush
\* removes a link or changes anything of a link but its applied candidates;
\* when the flush of a link ends, every candidate of the queue that was not
\* rejected has been applied, in order, and the queue is empty. A candidate
\* that arrives after the remote description was set and is rejected leaves
\* the links and the queues as they were.
C30_FailedCandidateSkipped ==
  [][\A c \in Browsers :
       /\ FlushAdvanced(c) =>
            /\ DOMAIN rtcManager'[c].peers = DOMAIN rtcManager[c].peers
            /\ \A p \in DOMAIN rtcManager[c].peers :
                 [rtcManager'[c].peers[p] EXCEPT !.applied = rtcManager[c].peers[p].applied]
                   = rtcManager[c].peers[p]
       /\ eventLoop'[c].flushed # NoFlush =>
            /\ rtcManager'[c].pendingCandidates[eventLoop'[c].flushed.peer] = <<>>
            /\ FlushTargetsLink(rtcManager'[c], eventLoop'[c].flushed) =>
                 AppliedOf(rtcManager'[c].peers[eventLoop'[c].flushed.peer],
                           eventLoop'[c].flushed)
                   = Accepted(eventLoop'[c].flushed)
       /\ eventLoop'[c].arrived.failed =>
            /\ eventLoop'[c].arrived.late
            /\ rtcManager'[c] = rtcManager[c]]_vars

\* A flush of two queued candidates has just ended on its link: the first
\* candidate was rejected, the second is applied, the queue is empty.
C30_Witness ==
  \E c \in Browsers :
    /\ Len(eventLoop[c].flushed.queue) = 2
    /\ eventLoop[c].flushed.skipped = <<eventLoop[c].flushed.queue[1]>>
    /\ FlushTargetsLink(rtcManager[c], eventLoop[c].flushed)
    /\ rtcManager[c].peers[eventLoop[c].flushed.peer].applied
         = <<eventLoop[c].flushed.queue[2]>>
    /\ rtcManager[c].pendingCandidates[eventLoop[c].flushed.peer] = <<>>

\* C31: for one failure episode of a link (from a failed or disconnected
\* report until the link reports connected again) handleConnectionFailure
\* calls pc.restartIce() and starts the restart timeout at most once, also
\* when the grace timer and the failure timer of the link overlap or the
\* transport reports failed again after the restart.
C31_OneRestartPerEpisode ==
  \A c \in Browsers : \A pc \in DOMAIN eventLoop[c].restarts :
    eventLoop[c].restarts[pc] <= 1

\* The step runs the callback of a grace timer of browser c.
GraceTimerStep(c) ==
  /\ eventLoop'[c].fired.kind = "grace"
  /\ eventLoop'[c].timers # eventLoop[c].timers

\* The restart timers pending at a browser.
RestartTimers(loop) == SelectSeq(loop.timers, LAMBDA t : t.kind = "restart")

LinkState(c) ==
  <<rtcManager[c], eventLoop[c].timers, eventLoop[c].flushes, eventLoop[c].restarts,
    eventLoop[c].orphans>>

\* removePeer has closed the peer connection timer t was started for: it is
\* neither the one this.peers holds nor one that was replaced there.
ClosedLinkOf(m, loop, t) ==
  /\ ~(t.peer \in DOMAIN m.peers /\ m.peers[t.peer].id = t.pc)
  /\ t.pc \notin DOMAIN loop.orphans

\* The step runs the callback of a timer whose peer connection is closed.
ClosedTimerStep(c) ==
  /\ eventLoop'[c].fired # NoTimer
  /\ eventLoop'[c].timers # eventLoop[c].timers
  /\ ClosedLinkOf(rtcManager[c], eventLoop[c], eventLoop'[c].fired)

\* The step handles an answer or a candidate of a peer without a link.
LateSignalStep(c) ==
  /\ eventLoop'[c].arrived # NoArrival
  /\ eventLoop'[c].arrived.peer \notin DOMAIN rtcManager[c].peers

\* C33: after the link to a peer was closed, a timer that was started for
\* that link expires without any effect but its own removal from the pending
\* timers, and an answer or candidate of the peer is handled without any
\* effect: no restart attempt, no applied candidate, no teardown, no change
\* of any link.
C33_ClosedLinkIgnoresLateEvents ==
  [][\A c \in Browsers :
       /\ ClosedTimerStep(c) =>
            /\ rtcManager'[c] = rtcManager[c]
            /\ \E i \in 1 .. Len(eventLoop[c].timers) :
                 /\ eventLoop[c].timers[i] = eventLoop'[c].fired
                 /\ eventLoop'[c].timers = RemoveAt(eventLoop[c].timers, i)
            /\ eventLoop'[c].restarts = eventLoop[c].restarts
            /\ eventLoop'[c].flushes = eventLoop[c].flushes
            /\ eventLoop'[c].orphans = eventLoop[c].orphans
       /\ LateSignalStep(c) => LinkState(c)' = LinkState(c)]_vars

\* The restart timeout of a link that reported failed has just fired after
\* removePeer closed the link, while the browser holds another link.
C33_Witness ==
  \E c \in Browsers :
    /\ eventLoop[c].fired.kind = "restart"
    /\ eventLoop[c].fired.pc \in eventLoop[c].failedSeen
    /\ ClosedLinkOf(rtcManager[c], eventLoop[c], eventLoop[c].fired)
    /\ eventLoop[c].removed = {}
    /\ DOMAIN rtcManager[c].peers # {}

\* The offers of browser c for key k of this.peers that await their answer.
OutstandingFor(c, k) ==
  {i \in 1 .. Len(history[c].outstanding) : history[c].outstanding[i] = k}

C35_PingPongTearsNothingDown ==
  [][\A c \in Browsers :
       /\ eventLoop'[c].pings # eventLoop[c].pings =>
            /\ rtcManager' = rtcManager
            /\ eventLoop'[c].timers = eventLoop[c].timers
            /\ eventLoop'[c].flushes = eventLoop[c].flushes
            /\ UNCHANGED <<rooms, userMap, ioRooms, sockets, kickTimers>>
       /\ DOMAIN rtcManager[c].peers \ DOMAIN rtcManager'[c].peers # {} =>
            /\ eventLoop'[c].pings = eventLoop[c].pings
            /\ eventLoop'[c].removed
                 = DOMAIN rtcManager[c].peers \ DOMAIN rtcManager'[c].peers]_vars

\* A pong with poor latency has been handled, a ping is unanswered, and the
\* browser holds links to both peers of its room.
C35_Witness ==
  \E c \in Browsers :
    /\ eventLoop[c].connectionQuality = "poor"
    /\ eventLoop[c].pings > 0
    /\ lastOp.op = "ping"
    /\ DOMAIN rtcManager[c].peers = Peers
    /\ InCall

\* C36: a run of the periodic cleanup, wherever it falls among joins, leaves
\* and kicks, keeps every room that has a member as it is and changes no
\* participant record; a room it removes is empty and older than
\* ROOM_TIMEOUT.
C36_SweepKeepsOccupiedRooms ==
  [][lastOp'.op = "cleanup" =>
       /\ \A r \in DOMAIN rooms :
            Members(r) # {} => r \in DOMAIN rooms' /\ rooms'[r] = rooms[r]
       /\ \A r \in DOMAIN rooms \ DOMAIN rooms' :
            Members(r) = {} /\ now - rooms[r].created > ROOM_TIMEOUT
       /\ UNCHANGED <<userMap, ioRooms>>]_vars

\* The cleanup has just run over a room that is older than ROOM_TIMEOUT and
\* has members, one of them under a pending kick.
C36_Witness ==
  /\ lastOp.op = "cleanup"
  /\ \E r \in DOMAIN rooms :
       /\ now - rooms[r].created > ROOM_TIMEOUT
       /\ \E t \in kickTimers : t \in Members(r)

\* The user totals of the /health endpoint: the members of the rooms that
\* have any, and the size of userMap.
RECURSIVE HealthUsersTotal(_)
HealthUsersTotal(rms) ==
  IF DOMAIN rms = {} THEN 0
  ELSE LET roomId == CHOOSE r \in DOMAIN rms : TRUE
       IN  (IF Len(rms[roomId].users) > 0 THEN Len(rms[roomId].users) ELSE 0)
           + HealthUsersTotal(MapDelete(rms, roomId))

HealthUsersConnected(users) == Cardinality(DOMAIN users)

\* C37: between handlers userMap and rooms agree: a connection has a record
\* with roomId r exactly if it is in the users of room r, no connection is
\* twice in a room's users, and the two user totals of /health are equal.
C37_TablesAgree ==
  /\ \A p \in DOMAIN userMap :
       /\ userMap[p].roomId \in DOMAIN rooms
       /\ p \in Range(rooms[userMap[p].roomId].users)
  /\ \A r \in DOMAIN rooms : \A p \in Range(rooms[r].users) :
       p \in DOMAIN userMap /\ userMap[p].roomId = r
  /\ \A r \in DOMAIN rooms :
       Cardinality(Range(rooms[r].users)) = Len(rooms[r].users)
  /\ HealthUsersTotal(rooms) = HealthUsersConnected(userMap)

\* Two rooms with members, three participants in all, after a member has left.
C37_Witness ==
  /\ Cardinality(DOMAIN rooms) = 2
  /\ HealthUsersConnected(userMap) = 3
  /\ \E p \in Sockets : sockets[p] = "closed"

\* The host of room r leaves in this step.
HostLeaves(r) ==
  /\ sockets[rooms[r].host] = "connected"
  /\ sockets'[rooms[r].host] = "closed"
  /\ rooms[r].host \notin Range(rooms'[r].users)

\* C38: a room that exists before and after a step has a different host
\* after it only if its host left in that step; a join, a kick request, a
\* signal and the leave of a member who is not the host change no room's host.
C38_HostChangesOnlyWhenHostLeaves ==
  [][/\ \A r \in DOMAIN rooms \cap DOMAIN rooms' :
          rooms'[r].host # rooms[r].host => HostLeaves(r)
     /\ lastOp'.op \in {"join-room", "kick-user", "signal"} =>
          \A r \in DOMAIN rooms : r \in DOMAIN rooms' /\ rooms'[r].host = rooms[r].host]_vars

\* A signal was relayed in a room of three whose host has a kick pending
\* against a member, after an earlier member has left.
C38_Witness ==
  /\ lastOp.op = "signal"
  /\ Len(lastEmits) = 1 /\ lastEmits[1].ev # "error"
  /\ \E r \in DOMAIN rooms :
       /\ Len(rooms[r].users) = 2
       /\ \E t \in kickTimers : t \in Range(rooms[r].users) /\ t # rooms[r].host
  /\ \E p \in KickSockets : sockets[p] = "closed"

\* C39: no candidate is given twice to addIceCandidate of a link's peer
\* connection, whichever flush triggers fire while a flush of the link's
\* queue is suspended.
C39_CandidateAppliedOnce ==
  \A c \in Browsers : \A p \in DOMAIN rtcManager[c].peers :
    Cardinality(Range(rtcManager[c].peers[p].applied))
      = Len(rtcManager[c].peers[p].applied)

\* The mute request of this step made force-mute reach a socket.
MuteDelivered ==
  /\ lastOp'.op = "mute-user"
  /\ \E i \in 1 .. Len(lastEmits') :
       lastEmits'[i].ev = "force-mute" /\ lastEmits'[i].rcpt # {}

\* C40: force-mute reaches a socket only if the caller is the host of its
\* room and the target is a member of that room.
C40_MuteOnlyByHostInRoom ==
  [][MuteDelivered =>
       /\ lastOp'.s \in DOMAIN userMap /\ IsRoomHost(lastOp'.s)
       /\ lastOp'.target \in DOMAIN userMap
       /\ userMap[lastOp'.target].roomId = userMap[lastOp'.s].roomId]_vars

====
